---- MODULE Spec2Model ----
(***************************************************************************)
(* Model of pve-lxc-syscalld: the per-connection receive loop              *)
(* (client.rs), the seccomp proxy message buffer (lxcseccomp.rs), the      *)
(* syscall table (syscall.rs), the mknod / quotactl handlers, the          *)
(* permission snapshot (process/user_caps.rs) and the fork helper          *)
(* (fork.rs).                                                              *)
(*                                                                         *)
(* 64-bit syscall arguments are sequences of four 16-bit limbs, least      *)
(* significant first, so that values above 2^31 can be written down.       *)
(***************************************************************************)
EXTENDS Integers, Sequences, FiniteSets, TLC

\* ------------------------------------------------------------------ bounds
\* NConn connections are accepted; MaxReq bounds the requests received in
\* the concurrent specification.
NConn == 2
MaxReq == 2

Conns == 1..NConn

None == "none"

\* ------------------------------------------------------- libc constants
EPERM == 1
ENOENT == 2
EAGAIN == 11
EFAULT == 14
EINVAL == 22
ERANGE == 34
ENOSYS == 38
EOPNOTSUPP == 95
Errnos == {EPERM, ENOENT, EAGAIN, EFAULT, EINVAL, ERANGE, ENOSYS, EOPNOTSUPP}

SOL_SOCKET == 1
SCM_RIGHTS == 1
SCM_CREDENTIALS == 2
SOL_OTHER == 0

S_IFMT == 61440
S_IFREG == 32768
S_IFCHR == 8192
S_IFBLK == 24576

\* ------------------------------------------------------- 64-bit values
Limb == 65536

U64(n) == <<n % Limb, n \div Limb, 0, 0>>

FitsU32(a) == a[3] = 0 /\ a[4] = 0

FitsI32(a) == FitsU32(a) /\ a[2] < 32768

\* u64 comparison and wrapping arithmetic on the limbs
Lt64(a, b) ==
    \E i \in 1..4 : a[i] < b[i] /\ \A j \in (i + 1)..4 : a[j] = b[j]

Le64(a, b) == a = b \/ Lt64(a, b)

Add64(a, b) ==
    LET s1 == a[1] + b[1]
        s2 == a[2] + b[2] + s1 \div Limb
        s3 == a[3] + b[3] + s2 \div Limb
        s4 == a[4] + b[4] + s3 \div Limb
    IN  <<s1 % Limb, s2 % Limb, s3 % Limb, s4 % Limb>>

Sub64(a, b) ==
    LET d1 == a[1] - b[1]
        d2 == a[2] - b[2] + d1 \div Limb
        d3 == a[3] - b[3] + d2 \div Limb
        d4 == a[4] - b[4] + d3 \div Limb
    IN  <<d1 % Limb, d2 % Limb, d3 % Limb, d4 % Limb>>

\* AT_FDCWD (-100) as the kernel hands it over in a 64-bit register,
\* sign-extended or zero-extended from 32 bits.
AtFdCwdSx == <<65436, 65535, 65535, 65535>>
AtFdCwdZx == <<65436, 65535, 0, 0>>

\* ------------------------------------------------------- wire sizes
ProxyMsgSize == 32
NotifSize == 80
NotifRespSize == 24
DataSize == 64
MaxCookie == 64
CmsgHdrSize == 16
RawFdSize == 4

SECCOMP_SIZES == [notif |-> NotifSize, notif_resp |-> NotifRespSize, data |-> DataSize]
BadSizes == [notif |-> NotifSize, notif_resp |-> NotifRespSize + 8, data |-> DataSize]

\* ProxyMessageBuffer::new: seccomp_packet_size
seccomp_packet_size == ProxyMsgSize + SECCOMP_SIZES.notif + SECCOMP_SIZES.notif_resp

\* ------------------------------------------------------- messages
AUDIT_ARCH_X86_64 == <<62, 49152>>
AUDIT_ARCH_I386 == <<3, 16384>>
AUDIT_ARCH_AARCH64 == <<183, 49152>>

ZeroArgs == [i \in 1..6 |-> U64(0)]

Args(a0, a1, a2, a3) == [i \in 1..6 |-> CASE i = 1 -> a0 [] i = 2 -> a1 [] i = 3 -> a2
                                          [] i = 4 -> a3 [] OTHER -> U64(0)]

ZeroNotif == [id |-> 0, nr |-> 0, arch |-> <<0, 0>>, args |-> ZeroArgs]
ZeroResp == [id |-> 0, val |-> 0, error |-> 0, flags |-> 0]
ZeroSizes == [notif |-> 0, notif_resp |-> 0, data |-> 0]

\* What the peer left in the response part of a request: never looked at.
WireResp == [id |-> 5, val |-> 3, error |-> 4, flags |-> 1]

GoodCmsg == [buflen |-> 24, cmsg_len |-> 24, cmsg_level |-> SOL_SOCKET, cmsg_type |-> SCM_RIGHTS]
NoCmsg == [buflen |-> 0, cmsg_len |-> 0, cmsg_level |-> 0, cmsg_type |-> 0]

Cmsgs == {NoCmsg}
         \cup [buflen : {24}, cmsg_len : {16, 20, 24},
               cmsg_level : {SOL_SOCKET, SOL_OTHER}, cmsg_type : {SCM_RIGHTS, SCM_CREDENTIALS}]

GoodHdr == [len |-> seccomp_packet_size, reserved0 |-> 0, sizes |-> SECCOMP_SIZES,
            cookie_len |-> 0, cmsg |-> GoodCmsg, pidok |-> TRUE]

\* Envelope / ancillary data of a message, as recvmsg delivers it.  len is
\* the received byte count (at most the capacity of the four buffers).
Hdrs == [len : {0, 100, seccomp_packet_size, seccomp_packet_size + 4,
                seccomp_packet_size + MaxCookie},
         reserved0 : {0, 1}, sizes : {SECCOMP_SIZES, BadSizes},
         cookie_len : {0, 4, MaxCookie, MaxCookie + 36},
         cmsg : {GoodCmsg}, pidok : {TRUE}]
        \cup {[GoodHdr EXCEPT !.cmsg = c] : c \in Cmsgs}
        \cup {[GoodHdr EXCEPT !.pidok = FALSE]}

Msg(hdr, notif) == [hdr |-> hdr, notif |-> notif, resp |-> WireResp]

\* ------------------------------------------------------- ProxyMessageBuffer
\* ProxyMessageBuffer::new(max_cookie): everything zeroed, no fds held.
NewBuffer == [proxy_msg |-> [reserved0 |-> 0, sizes |-> ZeroSizes, cookie_len |-> 0],
              seccomp_notif |-> ZeroNotif, seccomp_resp |-> ZeroResp,
              cookie_buf_len |-> 0, pid_fd |-> None, mem_fd |-> None]

reset(buf) == [buf EXCEPT !.proxy_msg.cookie_len = 0, !.mem_fd = None, !.pid_fd = None]

\* recvmsg into the scatter list [proxy_msg, seccomp_notif, seccomp_resp,
\* cookie_buf]: a part is filled when the received bytes reach its end.
recvmsg_vectored(buf, m) ==
    LET l == m.hdr.len
        b1 == IF l >= ProxyMsgSize
              THEN [buf EXCEPT !.proxy_msg = [reserved0 |-> m.hdr.reserved0,
                                              sizes |-> m.hdr.sizes,
                                              cookie_len |-> m.hdr.cookie_len]]
              ELSE buf
        b2 == IF l >= ProxyMsgSize + NotifSize
              THEN [b1 EXCEPT !.seccomp_notif = m.notif] ELSE b1
    IN  IF l >= ProxyMsgSize + NotifSize + NotifRespSize
        THEN [b2 EXCEPT !.seccomp_resp = m.resp] ELSE b2

prepare_response_noid(buf) ==
    [buf EXCEPT !.seccomp_resp = [@ EXCEPT !.val = -1, !.error = -ENOSYS, !.flags = 0]]

prepare_response(buf) ==
    [buf EXCEPT !.seccomp_resp = [id |-> buf.seccomp_notif.id, val |-> -1,
                                  error |-> -ENOSYS, flags |-> 0]]

check_sizes_notif_only(buf) ==
    buf.proxy_msg.sizes.notif = SECCOMP_SIZES.notif

check_sizes(buf) ==
    /\ buf.proxy_msg.sizes.notif = SECCOMP_SIZES.notif
    /\ buf.proxy_msg.sizes.notif_resp = SECCOMP_SIZES.notif_resp
    /\ buf.proxy_msg.sizes.data = SECCOMP_SIZES.data

set_len_nolencheck(buf, len) ==
    IF len < seccomp_packet_size THEN [ok |-> FALSE, buf |-> buf]
    ELSE IF buf.proxy_msg.reserved0 # 0 THEN [ok |-> FALSE, buf |-> buf]
    ELSE IF ~check_sizes(buf) THEN [ok |-> FALSE, buf |-> buf]
    ELSE [ok |-> TRUE,
          buf |-> prepare_response([buf EXCEPT !.cookie_buf_len = buf.proxy_msg.cookie_len])]

\* set_len: the checks in the order of the code.  cookie_len is a u64 and
\* usize is 64 bits wide on the supported targets, so the usize conversion
\* cannot fail.
set_len(buf, len) ==
    IF len < seccomp_packet_size THEN [ok |-> FALSE, buf |-> buf]
    ELSE IF buf.proxy_msg.reserved0 # 0 THEN [ok |-> FALSE, buf |-> buf]
    ELSE IF ~check_sizes(buf) THEN [ok |-> FALSE, buf |-> buf]
    ELSE IF len - seccomp_packet_size > MaxCookie THEN [ok |-> FALSE, buf |-> buf]
    ELSE IF len # seccomp_packet_size + buf.proxy_msg.cookie_len
         THEN [ok |-> FALSE, buf |-> buf]
    ELSE [ok |-> TRUE,
          buf |-> prepare_response([buf EXCEPT !.cookie_buf_len = buf.proxy_msg.cookie_len])]

\* RawCmsgIterator::next on the control buffer recvmsg filled.
cmsg_next(c) ==
    IF c.buflen < CmsgHdrSize
    THEN [present |-> FALSE, cmsg_level |-> 0, cmsg_type |-> 0, datalen |-> 0]
    ELSE [present |-> TRUE, cmsg_level |-> c.cmsg_level, cmsg_type |-> c.cmsg_type,
          datalen |-> c.cmsg_len - CmsgHdrSize]

\* the level/type test of recv
cmsg_rejected(cmsg) ==
    cmsg.cmsg_level # SOL_SOCKET /\ cmsg.cmsg_type # SCM_RIGHTS

\* The file descriptors recvmsg installed for a message: those of an
\* SCM_RIGHTS control message, as many as its data holds.
fds_delivered(c) ==
    IF cmsg_next(c).present /\ c.cmsg_level = SOL_SOCKET /\ c.cmsg_type = SCM_RIGHTS
    THEN cmsg_next(c).datalen \div RawFdSize ELSE 0

\* ProxyMessageBuffer::recv: res is "eof" (Ok(false)), "ok" (Ok(true)) or
\* "err" (Err).  The numbers stored as pid_fd and mem_fd are read from the
\* data of the control message: the two delivered fds ("pidfd", "memfd")
\* when it is SCM_RIGHTS, its data bytes taken for fd numbers otherwise.
recv(buf0, m) ==
    LET b1 == recvmsg_vectored(reset(buf0), m)
        sl == set_len(b1, m.hdr.len)
        cmsg == cmsg_next(m.hdr.cmsg)
    IN  IF m.hdr.len = 0 THEN [res |-> "eof", buf |-> b1]
        ELSE IF ~sl.ok THEN [res |-> "err", buf |-> sl.buf]
        ELSE IF ~cmsg.present THEN [res |-> "err", buf |-> sl.buf]
        ELSE IF cmsg_rejected(cmsg) THEN [res |-> "err", buf |-> sl.buf]
        ELSE IF cmsg.datalen \div RawFdSize # 2 THEN [res |-> "err", buf |-> sl.buf]
        ELSE IF ~m.hdr.pidok THEN [res |-> "err", buf |-> sl.buf]
        ELSE [res |-> "ok",
              buf |-> [sl.buf EXCEPT
                         !.pid_fd = IF fds_delivered(m.hdr.cmsg) = 2 THEN "pidfd" ELSE "data",
                         !.mem_fd = IF fds_delivered(m.hdr.cmsg) = 2 THEN "memfd" ELSE "data"]]

\* What recv has done with each delivered fd when it returns: "owned"
\* (pid_fd / mem_fd of the buffer), "closed" (wrapped in an Fd or PidFd
\* that was dropped) or "leaked" (still a raw number in the control
\* buffer: recv returned before the Vec<Fd> was built).
recv_fds(buf0, m) ==
    LET sl == set_len(recvmsg_vectored(reset(buf0), m), m.hdr.len)
        n == fds_delivered(m.hdr.cmsg)
    IN  [i \in 1..n |->
            IF m.hdr.len = 0 THEN "leaked"
            ELSE IF ~sl.ok THEN "leaked"
            ELSE IF n # 2 THEN "closed"
            ELSE IF ~m.hdr.pidok THEN "closed"
            ELSE "owned"]

\* ------------------------------------------------------- syscall.rs
StOk(v) == [ok |-> TRUE, val |-> v, err |-> 0]
StErr(e) == [ok |-> FALSE, val |-> 0, err |-> e]

SYSCALL_TABLE ==
    << [arch |-> AUDIT_ARCH_X86_64, mknod |-> 133, mknodat |-> 259, quotactl |-> 179],
       [arch |-> AUDIT_ARCH_I386, mknod |-> 14, mknodat |-> 297, quotactl |-> 131] >>

RECURSIVE translate_from(_, _, _)
translate_from(i, arch, nr) ==
    IF i > Len(SYSCALL_TABLE) THEN "None"
    ELSE LET sc == SYSCALL_TABLE[i]
         IN  IF sc.arch = arch /\ nr = sc.mknod THEN "Mknod"
             ELSE IF sc.arch = arch /\ nr = sc.mknodat THEN "MknodAt"
             ELSE IF sc.arch = arch /\ nr = sc.quotactl THEN "Quotactl"
             ELSE translate_from(i + 1, arch, nr)

translate_syscall_anyarch(arch, nr) ==
    IF nr = -1 THEN "None" ELSE translate_from(1, AUDIT_ARCH_X86_64, nr)

translate_syscall(arch, nr) ==
    IF nr = -1 THEN "None" ELSE translate_from(1, arch, nr)

\* ------------------------------------------------------- handler results
\* A handler ends in Ok(SyscallStatus) ("status"), in Err(Error) ("error":
\* kind is the concrete error type, errno 0 when it carries none), or it
\* has forked and awaits the child ("fork").
NoErr == [kind |-> "none", errno |-> 0]
\* ------------------------------------------------------- process contexts
\* The kernel-side attributes of a process that UserCaps::apply changes.
DaemonCtx0 == [cg_devices |-> "host", cg_v2 |-> "host", mntns |-> "host", root |-> "host",
               cwd |-> "host", profile |-> "unconfined", umask |-> 18, securebits |-> {},
               egid |-> 0, fsgid |-> 0, euid |-> 0, fsuid |-> 0, caps |-> "full"]

\* The same attributes of the container process that issued the syscall.
CallerCtx == [cg_devices |-> "ct", cg_v2 |-> "ct", mntns |-> "ct", root |-> "ct",
              cwd |-> "ct", profile |-> "lxc-ct", umask |-> 23, securebits |-> {},
              egid |-> 100000, fsgid |-> 100001, euid |-> 100002, fsuid |-> 100003,
              caps |-> "ct"]

NoCaps == [apply_uids |-> FALSE, cgroup_v1_devices |-> FALSE, cgroup_v2_base |-> "",
           cgroup_v2 |-> FALSE, apparmor_profile |-> FALSE,
           euid |-> 0, egid |-> 0, fsuid |-> 0, fsgid |-> 0, capabilities |-> "none",
           umask |-> 0]
\* The closure handed to forking_syscall with what it captured.
NoClosure == [sys |-> "none", caps |-> NoCaps, dirfd |-> [kind |-> "cwd", num |-> 0],
              pathname |-> <<0, 0, 0, 0>>, mode |-> <<0, 0, 0, 0>>, dev |-> <<0, 0, 0, 0>>,
              sub |-> "none", cmd |-> 0, special |-> <<0, 0, 0, 0>>, id |-> 0,
              out |-> "none", addr |-> <<0, 0, 0, 0>>, idmap |-> << >>, mapid |-> FALSE]
NoStatus == [ok |-> FALSE, val |-> 0, err |-> 0]

RStatus(st) == [k |-> "status", st |-> st, error |-> NoErr, closure |-> NoClosure]
RError(kind, errno) == [k |-> "error", st |-> NoStatus,
                        error |-> [kind |-> kind, errno |-> errno], closure |-> NoClosure]
RFork(closure) == [k |-> "fork", st |-> NoStatus, error |-> NoErr, closure |-> closure]

\* ------------------------------------------------------- argument helpers
arg(buf, i) == buf.seccomp_notif.args[i + 1]

\* mode_t::try_from(u64)
arg_mode_t_ok(buf, i) == FitsU32(arg(buf, i))

\* c_uint::try_from(u64)
arg_uint_ok(buf, i) == FitsU32(arg(buf, i))

\* arg_int: the c_uint reinterpreted as c_int (two's complement)
arg_int(buf, i) ==
    LET a == arg(buf, i)
    IN  IF a[2] >= 32768 THEN (a[2] - Limb) * Limb + a[1] ELSE a[2] * Limb + a[1]

\* RawFd::try_from(u64)
arg_fd_ok(buf, i) == FitsI32(arg(buf, i))

\* arg_fd after the conversion succeeded: the converted value is
\* non-negative, AT_FDCWD is -100.
arg_fd(buf, i) ==
    LET fd == arg(buf, i)[2] * Limb + arg(buf, i)[1]
    IN  IF fd = -100 THEN [kind |-> "cwd", num |-> 0] ELSE [kind |-> "fd", num |-> fd]

arg_opt_c_string_strict(buf, i, mem) ==
    IF arg(buf, i) = U64(0) THEN [res |-> "err", ptr |-> U64(0), errno |-> EINVAL]
    ELSE IF mem = "eio" THEN [res |-> "err", ptr |-> arg(buf, i), errno |-> EFAULT]
    ELSE IF mem = "nonul" THEN [res |-> "err", ptr |-> arg(buf, i), errno |-> EINVAL]
    ELSE [res |-> "some", ptr |-> arg(buf, i), errno |-> 0]

arg_opt_c_string_unread(buf, i, mem) ==
    IF arg(buf, i) = U64(0) THEN [res |-> "none", ptr |-> U64(0), errno |-> 0]
    ELSE [res |-> "some", ptr |-> arg(buf, i), errno |-> 0]

arg_opt_c_string_nonull(buf, i, mem) == [res |-> "some", ptr |-> arg(buf, i), errno |-> 0]

\* get_c_string / arg_opt_c_string: mem is what reading the caller's memory
\* gives: "ok" (a NUL within the bytes read), "nonul", "eio" (read_at fails).
\* res: "none" (NULL pointer), "some", "err".
arg_opt_c_string(buf, i, mem) ==
    IF arg(buf, i) = U64(0) THEN [res |-> "none", ptr |-> U64(0), errno |-> 0]
    ELSE IF mem = "eio" THEN [res |-> "err", ptr |-> arg(buf, i), errno |-> EFAULT]
    ELSE IF mem = "nonul" THEN [res |-> "err", ptr |-> arg(buf, i), errno |-> EINVAL]
    ELSE [res |-> "some", ptr |-> arg(buf, i), errno |-> 0]

arg_c_string(buf, i, mem) ==
    LET s == arg_opt_c_string(buf, i, mem)
    IN  IF s.res = "none" THEN [res |-> "err", ptr |-> U64(0), errno |-> EINVAL] ELSE s

\* ------------------------------------------------------- sys_mknod.rs
\* nix::sys::stat::major / minor of a dev_t, as <<low 16 bits, high 16 bits>>
major(dev) ==
    << (dev[1] \div 256) + (dev[2] % 16) * 256 + (dev[3] \div 4096) * 4096, dev[4] >>

minor(dev) ==
    << (dev[1] % 256) + ((dev[2] \div 16) % 256) * 256,
       (dev[2] \div 4096) + (dev[3] % 4096) * 16 >>

check_mknod_dev_anychr(mode, dev) ==
    LET sflag == (mode[1] \div 4096) * 4096
    IN  sflag = S_IFCHR \/ (sflag = S_IFREG /\ major(dev) = <<0, 0>> /\ minor(dev) = <<0, 0>>)

check_mknod_dev(mode, dev) ==
    LET sflag == (mode[1] \div 4096) * 4096
        t == <<sflag, major(dev), minor(dev)>>
    IN  t \in { <<S_IFREG, <<0, 0>>, <<0, 0>> >>,
                <<S_IFCHR, <<0, 0>>, <<0, 0>> >>,
                <<S_IFCHR, <<5, 0>>, <<0, 0>> >>,
                <<S_IFCHR, <<5, 0>>, <<1, 0>> >>,
                <<S_IFCHR, <<5, 0>>, <<2, 0>> >>,
                <<S_IFCHR, <<1, 0>>, <<3, 0>> >>,
                <<S_IFCHR, <<1, 0>>, <<5, 0>> >>,
                <<S_IFCHR, <<1, 0>>, <<7, 0>> >>,
                <<S_IFCHR, <<1, 0>>, <<8, 0>> >>,
                <<S_IFCHR, <<1, 0>>, <<9, 0>> >> }

\* ------------------------------------------------------- environment of a handler
\* What the parts of the system outside the daemon answer while a handler
\* runs in the daemon: reading the caller's memory (mem), opening
\* /proc/<pid>/cwd or fd/<n> (open), reading status / cgroup / attr/current
\* for the permission snapshot (caps, view), reading uid_map / gid_map
\* (idmap), and pipe2 / fork / registering the pipe (fork).
CapsViews ==
    { [has_v1 |-> TRUE,  devices |-> TRUE,  v2 |-> TRUE,  label |-> TRUE],
      [has_v1 |-> TRUE,  devices |-> FALSE, v2 |-> TRUE,  label |-> FALSE],
      [has_v1 |-> FALSE, devices |-> FALSE, v2 |-> TRUE,  label |-> TRUE],
      [has_v1 |-> FALSE, devices |-> FALSE, v2 |-> FALSE, label |-> FALSE] }

\* uid_map / gid_map files: empty, the usual unprivileged container, two
\* adjacent entries, the map of the initial namespace, and a container
\* whose host ids straddle 2^31.
IdMapEntry(ns, host, range) == [ns |-> U64(ns), host |-> U64(host), range |-> U64(range)]

IdMaps == { << >>,
            << IdMapEntry(0, 100000, 65536) >>,
            << IdMapEntry(0, 1000, 5), IdMapEntry(5, 2000, 10) >>,
            << [ns |-> U64(0), host |-> U64(0), range |-> <<65535, 65535, 0, 0>>] >>,
            << IdMapEntry(0, 2147483000, 65536) >> }

\* What the handler meets outside the message: the caller's memory, the
\* /proc entries behind the pidfd, and pipe2 / fork.  BaseEnv is the
\* environment where everything succeeds; HandlerEnvs varies it field by
\* field (a handler returns at the first failure).
BaseEnv == [mem |-> "ok", open |-> "ok", caps |-> "ok",
            view |-> [has_v1 |-> TRUE, devices |-> TRUE, v2 |-> TRUE, label |-> TRUE],
            idmap |-> << [ns |-> U64(0), host |-> U64(100000), range |-> U64(65536)] >>,
            idmapok |-> TRUE, fork |-> "ok"]

HandlerEnvs ==
    {[BaseEnv EXCEPT !.mem = x] : x \in {"ok", "nonul", "eio"}}
    \cup {[BaseEnv EXCEPT !.open = "enoent"], [BaseEnv EXCEPT !.idmapok = FALSE]}
    \cup {[BaseEnv EXCEPT !.caps = x] : x \in {"errno", "other"}}
    \cup {[BaseEnv EXCEPT !.fork = x] : x \in {"pipe", "fork", "stream"}}
    \cup {[BaseEnv EXCEPT !.view = v] : v \in CapsViews}
    \cup {[BaseEnv EXCEPT !.idmap = i] : i \in IdMaps}

CoreEnvs == [mem : {"ok"}, open : {"ok"}, caps : {"ok", "other"},
             view : {[has_v1 |-> TRUE, devices |-> TRUE, v2 |-> TRUE, label |-> TRUE]},
             idmap : {<< >>}, idmapok : {TRUE}, fork : {"ok"}]

\* UserCaps::new on a readable /proc entry
UserCaps_new(view) ==
    [apply_uids |-> TRUE,
     cgroup_v1_devices |-> view.devices,
     cgroup_v2_base |-> IF view.has_v1 THEN "unified/" ELSE "",
     cgroup_v2 |-> view.v2,
     apparmor_profile |-> view.label,
     euid |-> CallerCtx.euid, egid |-> CallerCtx.egid,
     fsuid |-> CallerCtx.fsuid, fsgid |-> CallerCtx.fsgid,
     capabilities |-> CallerCtx.caps, umask |-> CallerCtx.umask]

\* Fork::new as seen by the parent and forking_syscall up to its first
\* await: pipe2 or fork failing gives an io::Error with an errno and no
\* child; a failure to register the pipe comes after the fork, leaves a
\* child behind and carries no errno.
forking_syscall_start(closure, env) ==
    IF env.fork = "pipe" THEN RError("io", 24)
    ELSE IF env.fork = "fork" THEN RError("io", EAGAIN)
    ELSE IF env.fork = "stream"
         THEN [RError("io", 0) EXCEPT !.closure = closure]
    ELSE RFork(closure)

do_mknodat(dirfd, pathname, mode, dev, env) ==
    IF env.caps = "errno" THEN RError("io", ENOENT)
    ELSE IF env.caps = "other" THEN RError("other", 0)
    ELSE forking_syscall_start([NoClosure EXCEPT !.sys = "mknodat",
                                    !.caps = UserCaps_new(env.view),
                                    !.dirfd = dirfd, !.pathname = pathname,
                                    !.mode = mode, !.dev = dev], env)

mknod(buf, env) ==
    LET mode == arg(buf, 1)
        dev == arg(buf, 2)
        pathname == arg_c_string(buf, 0, env.mem)
    IN  IF ~arg_mode_t_ok(buf, 1) THEN RError("errno", EINVAL)
        ELSE IF ~check_mknod_dev(mode, dev) THEN RStatus(StErr(EPERM))
        ELSE IF pathname.res = "err" THEN RError("errno", pathname.errno)
        ELSE IF env.open # "ok" THEN RError("io", ENOENT)
        ELSE do_mknodat([kind |-> "cwd", num |-> 0], pathname.ptr, mode, dev, env)

mknodat(buf, env) ==
    LET mode == arg(buf, 2)
        dev == arg(buf, 3)
        pathname == arg_c_string(buf, 1, env.mem)
    IN  IF ~arg_mode_t_ok(buf, 2) THEN RError("errno", EINVAL)
        ELSE IF ~check_mknod_dev(mode, dev) THEN RStatus(StErr(EPERM))
        ELSE IF ~arg_fd_ok(buf, 0) THEN RError("errno", EINVAL)
        ELSE IF env.open # "ok" THEN RError("io", ENOENT)
        ELSE IF pathname.res = "err" THEN RError("errno", pathname.errno)
        ELSE do_mknodat(arg_fd(buf, 0), pathname.ptr, mode, dev, env)

\* ------------------------------------------------------- process/id_map.rs
RECURSIVE map_from_at(_, _, _)
map_from_at(map, i, id) ==
    IF i > Len(map) THEN [some |-> FALSE, v |-> U64(0)]
    ELSE IF Le64(map[i].ns, id) /\ Lt64(id, Add64(map[i].ns, map[i].range))
         THEN [some |-> TRUE, v |-> Sub64(Add64(map[i].host, id), map[i].ns)]
    ELSE map_from_at(map, i + 1, id)

map_from_next(map, id) ==
    LET r == map_from_at(map, 1, id)
    IN  IF r.some THEN [r EXCEPT !.v = Add64(@, U64(1))] ELSE r

map_from_skip_first(map, id) == map_from_at(map, 2, id)

map_from(map, id) == map_from_at(map, 1, id)

RECURSIVE map_into_at(_, _, _)
map_into_at(map, i, id) ==
    IF i > Len(map) THEN [some |-> FALSE, v |-> U64(0)]
    ELSE IF Le64(map[i].host, id) /\ Lt64(id, Add64(map[i].host, map[i].range))
         THEN [some |-> TRUE, v |-> Sub64(Add64(map[i].ns, id), map[i].host)]
    ELSE map_into_at(map, i + 1, id)

map_into_skip_first(map, id) == map_into_at(map, 2, id)

map_into_untranslated(map, id) == [some |-> TRUE, v |-> id]

map_into(map, id) == map_into_at(map, 1, id)

\* ------------------------------------------------------- sys_quotactl.rs
Q_SYNC == 8388609
Q_QUOTAON == 8388610
Q_QUOTAOFF == 8388611
Q_GETFMT == 8388612
Q_GETINFO == 8388613
Q_SETINFO == 8388614
Q_GETQUOTA == 8388615
Q_SETQUOTA == 8388616
Q_GETNEXTQUOTA == 8388617
USRQUOTA == 0
GRPQUOTA == 1
KINDMASK == 255
SUBCMDSHIFT == 8

\* QCMD(subcmd, kind) as a 64-bit argument
QCmd(sub, kind) == <<(sub % 256) * 256 + kind, sub \div 256, 0, 0>>

\* c_int as u64: sign extension
int_as_u64(id) ==
    <<id % Limb, (id \div Limb) % Limb,
      IF id < 0 THEN Limb - 1 ELSE 0, IF id < 0 THEN Limb - 1 ELSE 0>>

\* uid_gid_arg: the id is read as a c_int, widened to u64 for map_from, and
\* the mapped id converted back with c_int::try_from.
uid_gid_arg(buf, i, kind, env) ==
    LET id == arg_int(buf, i)
        m == map_from(env.idmap, int_as_u64(id))
    IN  IF ~arg_uint_ok(buf, i) THEN [ok |-> FALSE, errno |-> EINVAL, id |-> 0, mapped |-> FALSE]
        ELSE IF kind \notin {USRQUOTA, GRPQUOTA}
             THEN [ok |-> TRUE, errno |-> 0, id |-> id, mapped |-> FALSE]
        ELSE IF ~env.idmapok THEN [ok |-> FALSE, errno |-> ENOENT, id |-> 0, mapped |-> FALSE]
        ELSE IF ~m.some THEN [ok |-> FALSE, errno |-> ERANGE, id |-> 0, mapped |-> FALSE]
        ELSE IF ~FitsI32(m.v)
             THEN [ok |-> FALSE, errno |-> ERANGE, id |-> 0, mapped |-> FALSE]
        ELSE [ok |-> TRUE, errno |-> 0, id |-> m.v[2] * Limb + m.v[1], mapped |-> TRUE]

\* The tail shared by all q_* handlers: permission snapshot, then fork.
quota_fork(closure, env) ==
    IF env.caps = "errno" THEN RError("io", ENOENT)
    ELSE IF env.caps = "other" THEN RError("other", 0)
    ELSE forking_syscall_start([closure EXCEPT !.sys = "quotactl",
                                               !.caps = UserCaps_new(env.view)], env)

\* arg_struct_by_ptr
arg_struct_err(env) ==
    IF env.mem = "eio" THEN RError("io", EFAULT) ELSE RError("errno", EINVAL)

quotactl(buf, env) ==
    LET a == arg(buf, 0)
        cmd == arg_int(buf, 0)
        special == arg_opt_c_string(buf, 1, env.mem)
        kind == a[1] % (KINDMASK + 1)
        subcmd == a[2] * (Limb \div 256) + a[1] \div 256
        idok == arg_uint_ok(buf, 2)
        id == arg_int(buf, 2)
        ug == uid_gid_arg(buf, 2, kind, env)
        cl == [NoClosure EXCEPT !.cmd = cmd, !.special = special.ptr, !.addr = arg(buf, 3)]
    IN  IF ~arg_uint_ok(buf, 0) THEN RError("errno", EINVAL)
        ELSE IF special.res = "err" THEN RError("errno", special.errno)
        ELSE IF subcmd = Q_GETINFO THEN
            IF ~idok THEN RError("errno", EINVAL)
            ELSE quota_fork([cl EXCEPT !.sub = "Q_GETINFO", !.id = id, !.out = "dqinfo"], env)
        ELSE IF subcmd = Q_SETINFO THEN
            IF special.res = "none" THEN RStatus(StErr(EINVAL))
            ELSE IF ~idok THEN RError("errno", EINVAL)
            ELSE IF env.mem # "ok" THEN arg_struct_err(env)
            ELSE quota_fork([cl EXCEPT !.sub = "Q_SETINFO", !.id = id], env)
        ELSE IF subcmd = Q_GETFMT THEN
            IF ~idok THEN RError("errno", EINVAL)
            ELSE quota_fork([cl EXCEPT !.sub = "Q_GETFMT", !.id = id, !.out = "fmt"], env)
        ELSE IF subcmd = Q_QUOTAON THEN
            IF ~idok THEN RError("errno", EINVAL)
            ELSE IF arg_c_string(buf, 3, env.mem).res = "err"
                 THEN RError("errno", arg_c_string(buf, 3, env.mem).errno)
            ELSE quota_fork([cl EXCEPT !.sub = "Q_QUOTAON", !.id = id], env)
        ELSE IF subcmd = Q_QUOTAOFF THEN
            IF ~idok THEN RError("errno", EINVAL)
            ELSE quota_fork([cl EXCEPT !.sub = "Q_QUOTAOFF", !.id = id], env)
        ELSE IF subcmd = Q_GETQUOTA THEN
            IF special.res = "none" THEN RStatus(StErr(EINVAL))
            ELSE IF ~ug.ok THEN RError("errno", ug.errno)
            ELSE quota_fork([cl EXCEPT !.sub = "Q_GETQUOTA", !.id = ug.id, !.out = "dqblk"], env)
        ELSE IF subcmd = Q_SETQUOTA THEN
            IF special.res = "none" THEN RStatus(StErr(EINVAL))
            ELSE IF ~ug.ok THEN RError("errno", ug.errno)
            ELSE IF env.mem # "ok" THEN arg_struct_err(env)
            ELSE quota_fork([cl EXCEPT !.sub = "Q_SETQUOTA", !.id = ug.id], env)
        ELSE IF subcmd = Q_SYNC THEN
            IF special.res = "none" THEN RStatus(StErr(EINVAL))
            ELSE quota_fork([cl EXCEPT !.sub = "Q_SYNC", !.id = 0], env)
        ELSE IF subcmd = Q_GETNEXTQUOTA THEN
            IF special.res = "none" THEN RStatus(StErr(EINVAL))
            ELSE IF ~ug.ok THEN RError("errno", ug.errno)
            ELSE quota_fork([cl EXCEPT !.sub = "Q_GETNEXTQUOTA", !.id = ug.id,
                                       !.out = "nextdqblk", !.idmap = env.idmap,
                                       !.mapid = ug.mapped], env)
        ELSE RStatus(StErr(EOPNOTSUPP))

\* ------------------------------------------------------- client.rs
\* Client::handle_syscall: the table entry the request is matched with
syscall_nr(buf) == translate_syscall(buf.seccomp_notif.arch, buf.seccomp_notif.nr)

\* Client::handle_syscall up to the handler's first await
handle_syscall(buf, env) ==
    LET sc == syscall_nr(buf)
    IN  IF sc = "None" THEN RStatus(StErr(ENOSYS))
        ELSE IF sc = "Mknod" THEN mknod(buf, env)
        ELSE IF sc = "MknodAt" THEN mknodat(buf, env)
        ELSE quotactl(buf, env)

\* ------------------------------------------------------- process/user_caps.rs
\* One system call of the child: its name, whether the kernel can refuse
\* it, and the attribute of the process it sets when it succeeds.
Sys(name, fallible, field, value) ==
    [name |-> name, fallible |-> fallible, field |-> field, value |-> value]

apply_cgroups(self) ==
    (IF self.cgroup_v1_devices
     THEN << Sys("cgroup_devices", TRUE, "cg_devices", CallerCtx.cg_devices) >> ELSE << >>)
    \o (IF self.cgroup_v2
        THEN << Sys("cgroup_v2", TRUE, "cg_v2", CallerCtx.cg_v2) >> ELSE << >>)

apply_user_caps_uid_first(self, ctx) ==
    (IF self.apply_uids
     THEN << Sys("umask", FALSE, "umask", self.umask),
             Sys("securebits", TRUE, "securebits",
                 ctx.securebits \cup {"KEEP_CAPS", "NO_SETUID_FIXUP"}),
             Sys("seteuid", TRUE, "euid", self.euid),
             Sys("setfsuid", TRUE, "fsuid", self.fsuid),
             Sys("setegid", TRUE, "egid", self.egid),
             Sys("setfsgid", TRUE, "fsgid", self.fsgid) >>
     ELSE << >>)
    \o << Sys("capset", TRUE, "caps", self.capabilities) >>

apply_user_caps_bits_only(self, ctx) ==
    (IF self.apply_uids
     THEN << Sys("umask", FALSE, "umask", self.umask),
             Sys("securebits", TRUE, "securebits", {"KEEP_CAPS", "NO_SETUID_FIXUP"}),
             Sys("setegid", TRUE, "egid", self.egid),
             Sys("setfsgid", TRUE, "fsgid", self.fsgid),
             Sys("seteuid", TRUE, "euid", self.euid),
             Sys("setfsuid", TRUE, "fsuid", self.fsuid) >>
     ELSE << >>)
    \o << Sys("capset", TRUE, "caps", self.capabilities) >>

\* ctx: the context of the calling process (SecureBits::get_current)
apply_user_caps(self, ctx) ==
    (IF self.apply_uids
     THEN << Sys("umask", FALSE, "umask", self.umask),
             Sys("securebits", TRUE, "securebits",
                 ctx.securebits \cup {"KEEP_CAPS", "NO_SETUID_FIXUP"}),
             Sys("setegid", TRUE, "egid", self.egid),
             Sys("setfsgid", TRUE, "fsgid", self.fsgid),
             Sys("seteuid", TRUE, "euid", self.euid),
             Sys("setfsuid", TRUE, "fsuid", self.fsuid) >>
     ELSE << >>)
    \o << Sys("capset", TRUE, "caps", self.capabilities) >>

\* PidFd::enter_chroot
enter_chroot ==
    << Sys("fchdir_pidfd", TRUE, "cwd", "proc"),
       Sys("chroot", TRUE, "root", CallerCtx.root),
       Sys("chdir_root", TRUE, "cwd", "root") >>

\* UserCaps::apply: the system calls in the order of the code
apply(self, ctx) ==
    apply_cgroups(self)
    \o << Sys("setns_mnt", TRUE, "mntns", CallerCtx.mntns) >>
    \o enter_chroot
    \o << Sys("fchdir_cwd", TRUE, "cwd", CallerCtx.cwd) >>
    \o (IF self.apparmor_profile
        THEN << Sys("changeprofile", TRUE, "profile", CallerCtx.profile) >> ELSE << >>)
    \o apply_user_caps(self, ctx)

\* ------------------------------------------------------- capability.rs
\* The bits of SecureBits, each base bit with its lock.
SecureBaseBits == {"NOROOT", "NO_SETUID_FIXUP", "KEEP_CAPS", "NO_CAP_AMBIENT_RAISE"}

Locked(b) ==
    CASE b = "NOROOT" -> "NOROOT_LOCKED"
      [] b = "NO_SETUID_FIXUP" -> "NO_SETUID_FIXUP_LOCKED"
      [] b = "KEEP_CAPS" -> "KEEP_CAPS_LOCKED"
      [] b = "NO_CAP_AMBIENT_RAISE" -> "NO_CAP_AMBIENT_RAISE_LOCKED"

\* SecureBits::apply: prctl(PR_SET_SECUREBITS) refuses (EPERM) a value
\* that changes a locked bit or drops a lock.
PR_SET_SECUREBITS_ok(old, new) ==
    /\ \A b \in SecureBaseBits : Locked(b) \in old => (b \in old <=> b \in new)
    /\ \A b \in SecureBaseBits : Locked(b) \in old => Locked(b) \in new

\* A run of a sequence of system calls chained by the ? operator: the
\* call at position failAt, if the kernel can refuse it, fails and ends
\* the run (failAt = 0: none fails); the securebits call also fails when
\* the kernel must refuse its value.  ops are the calls issued, ctx the
\* context after the calls that succeeded (an attribute has the value the
\* last successful call gave it).
ExecSteps(steps, ctx, failAt) ==
    LET Fails(i) == \/ i = failAt /\ steps[i].fallible
                    \/ /\ steps[i].name = "securebits"
                       /\ ~PR_SET_SECUREBITS_ok(ctx.securebits, steps[i].value)
        failed == \E i \in 1..Len(steps) : Fails(i)
        first == CHOOSE i \in 1..Len(steps) : Fails(i) /\ \A j \in 1..(i - 1) : ~Fails(j)
        issued == IF failed THEN first ELSE Len(steps)
        done == IF failed THEN first - 1 ELSE Len(steps)
        IsLast(f, i) == steps[i].field = f /\ \A j \in (i + 1)..done : steps[j].field # f
    IN  [ctx |-> [f \in DOMAIN ctx |->
                    IF \E i \in 1..done : IsLast(f, i)
                    THEN steps[CHOOSE i \in 1..done : IsLast(f, i)].value
                    ELSE ctx[f]],
         ops |-> [i \in 1..issued |-> steps[i].name],
         ok |-> ~failed]

Exec(steps, ctx, failAt) ==
    CHOOSE r \in {ExecSteps(s, c, failAt) : s \in {steps}, c \in {ctx}} : TRUE

\* ------------------------------------------------------- the forked child
\* What happens to the child and what the kernel answers it: the refused
\* call and its errno (0: an error without errno), the result of the
\* forwarded syscall (0 or an errno), the dqb_id the kernel returns, the
\* write to the caller's memory, and the child's fate.
MaxSteps == 16
BaseChildEnv == [failAt |-> 0, failErrno |-> EPERM, sysres |-> 0, retid |-> 100123,
                 memw |-> "ok", fate |-> "run"]

ChildEnvs ==
    {[BaseChildEnv EXCEPT !.failAt = n, !.failErrno = e] : n \in 0..MaxSteps, e \in {EPERM, 0}}
    \cup {[BaseChildEnv EXCEPT !.sysres = ENOENT]}
    \cup {[BaseChildEnv EXCEPT !.retid = i, !.memw = w] : i \in {100123, 7},
                                                          w \in {"ok", "short", "eio"}}
    \cup {[BaseChildEnv EXCEPT !.fate = f] :
             f \in {"panic", "writefail", "killed", "killed_after_write"}}
    \cup {[BaseChildEnv EXCEPT !.fate = "killed_after_write", !.failAt = 1, !.failErrno = e] :
             e \in {EPERM, 0}}
    \cup {[BaseChildEnv EXCEPT !.fate = "killed_after_write", !.sysres = ENOENT]}

CoreChildEnvs == [failAt : {0}, failErrno : {EPERM}, sysres : {0},
                  retid : {7}, memw : {"ok"}, fate : {"run", "panic"}]

CRes(kind, val, errno) == [kind |-> kind, val |-> val, errno |-> errno]

quota_closure_tail_short_ok(closure, cenv) ==
    [res |-> CRes("ok", 0, 0),
     wrote |-> [done |-> closure.out # "none" /\ cenv.memw = "ok", dqb_id |-> U64(0)]]

\* The tail of the quotactl closures after the kernel call succeeded.
quota_closure_tail(closure, cenv) ==
    LET m == map_into(closure.idmap, U64(cenv.retid))
        id == IF closure.out = "nextdqblk" /\ closure.mapid
              THEN <<m.v[1], m.v[2], 0, 0>> ELSE U64(cenv.retid)
        nowrite == [done |-> FALSE, dqb_id |-> U64(0)]
    IN  IF closure.out = "none" THEN [res |-> CRes("ok", 0, 0), wrote |-> nowrite]
        ELSE IF closure.out = "nextdqblk" /\ closure.mapid /\ ~m.some
             THEN [res |-> CRes("fail", 0, ERANGE), wrote |-> nowrite]
        ELSE IF cenv.memw = "eio" THEN [res |-> CRes("fail", 0, EFAULT), wrote |-> nowrite]
        ELSE IF cenv.memw = "short" THEN [res |-> CRes("fail", 0, EINVAL), wrote |-> nowrite]
        ELSE [res |-> CRes("ok", 0, 0),
              wrote |-> [done |-> TRUE, dqb_id |-> IF closure.out = "nextdqblk" THEN id ELSE U64(0)]]

\* The closures of do_mknodat and of the q_* handlers: own pidfd, apply
\* the snapshot, the forwarded syscall, then the write-back.
closure_steps(closure, ctx) ==
    << Sys("pidfd_current", TRUE, "", 0) >> \o apply(closure.caps, ctx)

closure_result_ignore_apply(closure, cenv, s2, s3) ==
    LET nowrite == [done |-> FALSE, dqb_id |-> U64(0)]
        tail == quota_closure_tail(closure, cenv)
    IN  IF cenv.sysres # 0
        THEN [st |-> s3, res |-> CRes("err", 0, cenv.sysres), wrote |-> nowrite]
        ELSE IF closure.sys = "mknodat"
             THEN [st |-> s3, res |-> CRes("ok", 0, 0), wrote |-> nowrite]
        ELSE [st |-> s3, res |-> tail.res, wrote |-> tail.wrote]

closure_result(closure, cenv, s2, s3) ==
    LET nowrite == [done |-> FALSE, dqb_id |-> U64(0)]
        tail == quota_closure_tail(closure, cenv)
    IN  IF ~s2.ok THEN [st |-> s2, res |-> CRes("fail", 0, cenv.failErrno), wrote |-> nowrite]
        ELSE IF cenv.sysres # 0
             THEN [st |-> s3, res |-> CRes("err", 0, cenv.sysres), wrote |-> nowrite]
        ELSE IF closure.sys = "mknodat"
             THEN [st |-> s3, res |-> CRes("ok", 0, 0), wrote |-> nowrite]
        ELSE [st |-> s3, res |-> tail.res, wrote |-> tail.wrote]

\* s2: the run up to the end of apply; s3: the run with the forwarded
\* syscall, which is issued only when s2 succeeded.
run_closure(closure, ctx, cenv) ==
    CHOOSE r \in {closure_result(closure, cenv, s2, s3) :
                    s2 \in {Exec(closure_steps(closure, ctx), ctx, cenv.failAt)},
                    s3 \in {Exec(closure_steps(closure, ctx) \o << Sys(closure.sys, FALSE, "", 0) >>,
                                 ctx, cenv.failAt)}} : TRUE

\* ------------------------------------------------------- fork.rs
NoRec == [present |-> FALSE, val |-> 0, error |-> 0, failure |-> 0]

\* Fork::new, child side: the closure's result as the 16-byte record
Data(res) ==
    IF res.kind = "ok" THEN [present |-> TRUE, val |-> res.val, error |-> 0, failure |-> 0]
    ELSE IF res.kind = "err"
         THEN [present |-> TRUE, val |-> -1, error |-> res.errno, failure |-> 0]
    ELSE [present |-> TRUE, val |-> -1, error |-> -1,
          failure |-> IF res.errno = 0 THEN EFAULT ELSE res.errno]

\* A forked child and the parent's Fork value for it.  state: "none" (no
\* fork), "running", "exited" (a zombie), "reaped"; pid is Fork::pid
\* ("nofork": no Fork value was built), waits counts the waitpid calls;
\* cenv and res record what the child met and what its closure returned.
NoChild == [state |-> "none", closure |-> NoClosure, ctx |-> DaemonCtx0, ops |-> << >>,
            rec |-> NoRec, status |-> 0, wrote |-> [done |-> FALSE, dqb_id |-> U64(0)],
            pid |-> "nofork", waits |-> 0, cenv |-> BaseChildEnv,
            res |-> CRes("none", 0, 0)]

child_exit_panic_reported(child, cenv, r) ==
    [child EXCEPT !.state = "exited", !.cenv = cenv, !.status = 0,
                  !.rec = Data(CRes("fail", 0, 0))]

\* The whole life of the child from fork to _exit, given the run r of
\* the closure.
child_exit(child, cenv, r) ==
        IF cenv.fate = "panic"
        THEN [child EXCEPT !.state = "exited", !.status = 255, !.cenv = cenv]
        ELSE IF cenv.fate = "killed"
        THEN [child EXCEPT !.state = "exited", !.status = 9, !.cenv = cenv]
        ELSE [child EXCEPT !.state = "exited", !.ctx = r.st.ctx, !.ops = r.st.ops,
                           !.wrote = r.wrote, !.cenv = cenv, !.res = r.res,
                           !.rec = IF cenv.fate = "writefail" THEN NoRec ELSE Data(r.res),
                           !.status = IF cenv.fate = "writefail" THEN 1
                                      ELSE IF cenv.fate = "killed_after_write" THEN 9
                                      ELSE 0]

child_run_noexit(child, cenv) == child

child_run(child, cenv) ==
    CHOOSE c \in {child_exit(child, cenv, r) :
                    r \in {run_closure(child.closure, child.ctx, cenv)}} : TRUE

get_result_nofailure(rec) ==
    IF ~rec.present THEN RError("io", 0)
    ELSE IF rec.error = 0 THEN RStatus(StOk(rec.val))
    ELSE RStatus(StErr(rec.error))

\* Fork::get_result
get_result(rec) ==
    IF ~rec.present THEN RError("io", 0)
    ELSE IF rec.failure # 0 THEN RError("io", rec.failure)
    ELSE IF rec.error = 0 THEN RStatus(StOk(rec.val))
    ELSE RStatus(StErr(rec.error))

wait_ok_always(child) == TRUE

\* Fork::wait
wait_ok(child) == child.status = 0

\* forking_syscall from its first await on
forking_syscall(child) ==
    LET r == get_result(child.rec)
    IN  IF r.k = "error" THEN r
        ELSE IF ~wait_ok(child) THEN RError("io", 0)
        ELSE r

\* Fork::wait as the kernel sees it: pid.take() and waitpid
Fork_wait(child) == [child EXCEPT !.pid = "none", !.waits = @ + 1, !.state = "reaped"]

Fork_drop_always(child) == Fork_wait(child)

\* impl Drop for Fork
Fork_drop(child) == IF child.pid = "some" THEN Fork_wait(child) ELSE child

\* The child and the Fork value when forking_syscall returns: wait is
\* called when get_result gave Ok, and the Fork value is dropped.
forking_syscall_end(child) ==
    Fork_drop(IF get_result(child.rec).k = "error" THEN child ELSE Fork_wait(child))

\* ------------------------------------------------------- client.rs
\* Client::__handle_syscall: the handler's result as a SyscallStatus, or
\* fatal when the error carries no errno.
status_of_noconv(r) ==
    IF r.k = "status" THEN [fatal |-> FALSE, st |-> r.st] ELSE [fatal |-> TRUE, st |-> NoStatus]

status_of(r) ==
    IF r.k = "status" THEN [fatal |-> FALSE, st |-> r.st]
    ELSE IF r.error.kind \in {"errno", "nix", "io"} /\ r.error.errno # 0
         THEN [fatal |-> FALSE, st |-> StErr(r.error.errno)]
    ELSE [fatal |-> TRUE, st |-> NoStatus]

write_response_posval(buf, st) ==
    IF st.ok THEN [buf EXCEPT !.seccomp_resp.val = st.val, !.seccomp_resp.error = 0]
    ELSE [buf EXCEPT !.seccomp_resp.val = -1, !.seccomp_resp.error = st.err]

\* Client::__handle_syscall: the result written into the response
write_response(buf, st) ==
    IF st.ok THEN [buf EXCEPT !.seccomp_resp.val = st.val, !.seccomp_resp.error = 0]
    ELSE [buf EXCEPT !.seccomp_resp.val = -1, !.seccomp_resp.error = -st.err]

\* ------------------------------------------------------- macros.rs, tools.rs
\* The owning wrappers Fd, PidFd and RawNsFd, which share one
\* implementation of Drop, AsRawFd and IntoRawFd. The process's descriptor
\* table maps a number to the open file it names (0: the number is free);
\* raw is the numbers the program holds as plain RawFd; w is the wrappers
\* made so far: v is the value the wrapper holds (self.0), own the open
\* file v named when it was wrapped, state "live", "moved" (consumed by
\* into_raw_fd) or "dropped", held whether the program held the number as
\* its own when it wrapped it; closes is the close calls made by wrappers,
\* with the open file each one closed (0: the number was not open); seen
\* is what the latest as_raw_fd returned.
MaxWrappers == 2
EBADF == 9

\* the descriptor numbers: the kernel hands out the lowest free one, so two
\* of them are reused over and over
FdNums == {0, 1}

NoWrappers == [table |-> [n \in FdNums |-> 0], files |-> 0, raw |-> {},
               w |-> << >>, closes |-> << >>, seen |-> -1]

\* what a number names in the table
file_of(st, fd) == IF fd \in FdNums THEN st.table[fd] ELSE 0

\* libc::close called by wrapper i
close(st, i, fd) ==
    [st EXCEPT !.closes = Append(@, [by |-> i, fd |-> fd, file |-> file_of(st, fd)]),
               !.table = [n \in FdNums |-> IF n = fd THEN 0 ELSE st.table[n]]]

\* FromRawFd::from_raw_fd: Self(fd)
from_raw_fd(st, fd) ==
    [st EXCEPT !.w = Append(@, [v |-> fd, own |-> file_of(st, fd),
                                state |-> "live", held |-> fd \in st.raw]),
               !.raw = @ \ {fd}]

\* AsRawFd::as_raw_fd: self.0
as_raw_fd(st, i) == st.w[i].v

\* Drop::drop: close when self.0 >= 0
drop(st, i) == IF st.w[i].v >= 0 THEN close(st, i, st.w[i].v) ELSE st

\* IntoRawFd::into_raw_fd: self.0 is replaced by -EBADF and self dropped at
\* the end of the call; the number is the caller's
into_raw_fd(st, i) ==
    LET fd == st.w[i].v
        s1 == [st EXCEPT !.w[i].v = -EBADF]
    IN  [drop(s1, i) EXCEPT !.w[i].state = "moved",
                            !.raw = @ \cup (IF fd >= 0 THEN {fd} ELSE {})]

\* ------------------------------------------------------- executor/ring.rs
\* Ring<T>: head, tail, the slots (0: never written) and the two spin
\* locks.  th is the threads inside try_push and try_pop: pc, the tail and
\* head the call loaded (t, h), the element it pushes or read (x), whether
\* the slot was read ahead of the load of tail (early), the result of its
\* latest call (res) and the number of elements that were stored when that
\* call decided (stored).  next counts the calls of try_push; pushed and
\* popped are the elements in the order in which try_push stored and
\* try_pop returned them; raced tells that a plain read of head or tail
\* took another outcome than the latest value with the slot read after it.
RingSize == 2
MaxPush == 3

Pushers == {"p1", "p2"}
Poppers == {"q1", "q2"}

Idle == [pc |-> "idle", t |-> 0, h |-> 0, x |-> 0, early |-> FALSE,
         res |-> "none", stored |-> 0]

Ring_new == [head |-> 0, tail |-> 0, mask |-> RingSize - 1,
             data |-> [i \in 0 .. RingSize - 1 |-> 0],
             push_lock |-> FALSE, pop_lock |-> FALSE,
             th |-> [p \in Pushers \cup Poppers |-> Idle],
             next |-> 0, pushed |-> << >>, popped |-> << >>, raced |-> FALSE]

\* i & mask for a mask of 2^k - 1
slot(r, i) == i % (r.mask + 1)

\* ------------------------------------------------------- state
VARIABLES
    conn,       \* per connection: position of Client::main, socket state
    tasks,      \* the handler tasks spawned by main_do, in the order of receipt
    sent,       \* per connection: the replies written to the socket, in order
    lastRecv,   \* per connection: the latest message recv returned on, and their number
    daemonCtx,  \* the daemon process's own context
    daemon,     \* do_main's position, the readiness signal, the SECCOMP_SIZES static
    fdstate,    \* the process's fd table and the owning wrappers made of its fds
    ring        \* a Ring<T> with the threads pushing to it and popping from it

vars == <<conn, tasks, sent, lastRecv, daemonCtx, daemon, fdstate, ring>>

\* The daemon: phase is "start" (do_main not yet at its loop), "listening"
\* or "exited"; ready: READY=1 was sent; sizes is the lazy static
\* ("unchecked": never dereferenced, "ok", "poisoned": its initializer
\* panicked); kernel: whether the kernel's sizes equal the compiled ones;
\* sd: the --system option.
Listening == [phase |-> "listening", ready |-> FALSE, sizes |-> "unchecked",
              kernel |-> "match", sd |-> FALSE]

\* Deref of SECCOMP_SIZES in ProxyMessageBuffer::new: the first one runs
\* get_checked, whose error panics.
SECCOMP_SIZES_deref(d) ==
    IF d.kernel = "match" THEN [d EXCEPT !.sizes = "ok"] ELSE [d EXCEPT !.sizes = "poisoned"]

NoRecv == [n |-> 0, hdr |-> GoodHdr, res |-> "none", fds |-> << >>]

Init ==
    /\ conn = [c \in Conns |-> [main |-> "none", shut |-> FALSE, peer |-> "open",
                                arcs |-> 0, uac |-> FALSE]]
    /\ tasks = << >>
    /\ sent = [c \in Conns |-> << >>]
    /\ lastRecv = [c \in Conns |-> NoRecv]
    /\ daemonCtx = DaemonCtx0
    /\ fdstate = NoWrappers
    /\ ring = Ring_new
    /\ daemon = Listening

\* A handler task: pc is "spawned" (not yet polled), "reading" (awaiting the
\* child's record), "respond" (response written, sendmsg pending), "done"
\* (reply sent) or "dropped" (ended by an error, socket shut down).
InFlight(t) == tasks[t].pc \in {"spawned", "reading", "respond"}

TasksOf(c) == {t \in DOMAIN tasks : tasks[t].conn = c}

\* The Arc<Client> values of a connection: arcs counts them, and the socket
\* is dropped, its fd closed, when the last one goes.
Arc_clone_none(cn, c) == cn

Arc_clone(cn, c) == [cn EXCEPT ![c].arcs = @ + 1]

Arc_drop_none(cn, c) == cn

Arc_drop(cn, c) == [cn EXCEPT ![c].arcs = @ - 1]

\* A system call on self.socket (recvmsg, sendmsg, shutdown): uac records
\* a call made when no Arc was left, on the number of a closed fd.
socket_use(cn, c) == [cn EXCEPT ![c].uac = @ \/ cn[c].arcs = 0]

shutdown_all(cn, c) == [d \in DOMAIN cn |-> [cn[d] EXCEPT !.shut = TRUE]]

\* wrap_error after an Err: shutdown(Both) of the client's own socket
shutdown(cn, c) == [socket_use(cn, c) EXCEPT ![c].shut = TRUE]

\* crate::spawn(... __handle_syscall(msg)): the task owns the buffer
spawn_none(ts, c, buf) == ts

spawn(ts, c, buf) ==
    Append(ts, [conn |-> c, pc |-> "spawned", buf |-> buf, st |-> NoStatus,
                child |-> NoChild, handler |-> "unset", env |-> BaseEnv,
                result |-> [k |-> "unset", error |-> NoErr]])

\* do_main: accept a connection and spawn Client::main; the loop accepts one
\* connection per iteration, so connection c is the c-th one accepted.
\* Client::new makes the first Arc, which main_do takes; main clones it
\* for wrap_error.
Accept(c) ==
    /\ daemon.phase = "listening"
    /\ conn[c].main = "none"
    /\ \A d \in Conns : d < c => conn[d].main # "none"
    /\ conn' = Arc_clone([conn EXCEPT ![c].main = "recv", ![c].arcs = 1], c)
    /\ UNCHANGED <<tasks, sent, lastRecv, daemonCtx, daemon, fdstate, ring>>

\* One iteration of Client::main_do with a message m from the peer: a new
\* buffer, recv, and on success the spawn of the handler task with two
\* clones of the Arc; an Err leaves through wrap_error, which shuts the
\* socket down.  When main_do returns its Arc is dropped, then that of
\* wrap_error.
Recv(c, m) ==
    /\ conn[c].main = "recv"
    /\ conn[c].peer = "open"
    /\ ~conn[c].shut
    /\ SECCOMP_SIZES_deref(daemon).sizes = "ok"
    /\ daemon' = SECCOMP_SIZES_deref(daemon)
    /\ \E r \in {recv(NewBuffer, m)} :
           /\ lastRecv' = [lastRecv EXCEPT ![c] = [n |-> @.n + 1, hdr |-> m.hdr, res |-> r.res,
                                                     fds |-> recv_fds(NewBuffer, m)]]
           /\ conn' = CASE r.res = "ok" -> Arc_clone(Arc_clone(socket_use(conn, c), c), c)
                         [] r.res = "eof" ->
                              Arc_drop(Arc_drop([socket_use(conn, c) EXCEPT ![c].main = "eof"],
                                                c), c)
                         [] OTHER ->
                              Arc_drop(shutdown(Arc_drop([socket_use(conn, c)
                                                             EXCEPT ![c].main = "failed"], c), c), c)
           /\ tasks' = IF r.res = "ok" THEN spawn(tasks, c, r.buf) ELSE tasks
    /\ UNCHANGED <<sent, daemonCtx, fdstate, ring>>

\* recvmsg returns 0: the peer has closed its end, or a handler task has
\* shut the socket down.
RecvEof(c) ==
    /\ conn[c].main = "recv"
    /\ SECCOMP_SIZES_deref(daemon).sizes = "ok"
    /\ daemon' = SECCOMP_SIZES_deref(daemon)
    /\ conn' = Arc_drop(Arc_drop([socket_use(conn, c) EXCEPT
                                      ![c].main = "eof",
                                      ![c].peer = IF conn[c].shut THEN @ ELSE "closed"], c), c)
    /\ lastRecv' = [lastRecv EXCEPT ![c] = [n |-> @.n + 1, hdr |-> [GoodHdr EXCEPT !.len = 0],
                                            res |-> "eof", fds |-> << >>]]
    /\ UNCHANGED <<tasks, sent, daemonCtx, fdstate, ring>>

\* An iteration of main_do under a kernel whose sizes differ: the deref in
\* ProxyMessageBuffer::new panics, the task of Client::main unwinds and
\* drops its socket; the runtime keeps the daemon running.
SizesPanic(c) ==
    /\ conn[c].main = "recv"
    /\ SECCOMP_SIZES_deref(daemon).sizes = "poisoned"
    /\ daemon' = SECCOMP_SIZES_deref(daemon)
    /\ conn' = Arc_drop(Arc_drop([conn EXCEPT ![c].main = "panicked", ![c].shut = TRUE], c), c)
    /\ UNCHANGED <<tasks, sent, lastRecv, daemonCtx, fdstate, ring>>

\* do_main up to its loop: the old socket removed and the listener bound
\* (bound: both succeeded), then READY=1 with --system (notified: sd_notify
\* did not fail).
Startup(bound, notified) ==
    /\ daemon.phase = "start"
    /\ daemon' = IF ~bound THEN [daemon EXCEPT !.phase = "exited"]
                 ELSE IF ~daemon.sd THEN [daemon EXCEPT !.phase = "listening"]
                 ELSE IF notified THEN [daemon EXCEPT !.phase = "listening", !.ready = TRUE]
                 ELSE [daemon EXCEPT !.phase = "exited"]
    /\ UNCHANGED <<conn, tasks, sent, lastRecv, daemonCtx, fdstate, ring>>

\* fork(2): the context of the parent after the child ran the closure
parent_ctx_nofork(parent, childctx) == childctx

parent_ctx(parent, childctx) == parent

\* The end of a task: the future of __handle_syscall is dropped with its
\* Arc, wrap_error shuts the socket down after an Err, then its Arc goes.
task_end(cn, c, err) ==
    Arc_drop(IF err THEN shutdown(Arc_drop(cn, c), c) ELSE Arc_drop(cn, c), c)

\* The end of a task by an error, cn the sockets as the task left them.
Drop(t, cn) ==
    /\ tasks' = [tasks EXCEPT ![t].pc = "dropped", ![t].buf = NewBuffer]
    /\ conn' = task_end(cn, tasks[t].conn, TRUE)

\* The result is known: write it into the response, or drop the connection.
\* sc is the handler the request was dispatched to ("None": no handler),
\* env what the handler met; result keeps what handle_syscall returned.
Finish(t, r, child, sc, env) ==
    \E s \in {status_of(r)} :
        IF s.fatal
        THEN /\ tasks' = [tasks EXCEPT ![t].pc = "dropped", ![t].buf = NewBuffer,
                                       ![t].child = child, ![t].handler = sc,
                                       ![t].env = env,
                                       ![t].result = [k |-> r.k, error |-> r.error]]
             /\ conn' = task_end(conn, tasks[t].conn, TRUE)
        ELSE /\ tasks' = [tasks EXCEPT ![t].pc = "respond", ![t].st = s.st,
                                       ![t].buf = write_response(@, s.st),
                                       ![t].child = child, ![t].handler = sc,
                                       ![t].env = env,
                                       ![t].result = [k |-> r.k, error |-> r.error]]
             /\ UNCHANGED conn

\* First poll of a handler task: handle_syscall up to its first await.
TaskRun(t, env) ==
    /\ tasks[t].pc = "spawned"
    /\ \E r \in {handle_syscall(tasks[t].buf, env)} :
       \E child \in {IF r.closure.sys = "none" THEN NoChild
                      ELSE [NoChild EXCEPT !.state = "running", !.closure = r.closure,
                                           !.ctx = daemonCtx,
                                           !.pid = IF r.k = "fork" THEN "some" ELSE "nofork"]} :
           IF r.k = "fork"
           THEN /\ tasks' = [tasks EXCEPT ![t].pc = "reading", ![t].child = child,
                                          ![t].handler = syscall_nr(tasks[t].buf),
                                          ![t].env = env]
                /\ UNCHANGED conn
           ELSE Finish(t, r, child, syscall_nr(tasks[t].buf), env)
    /\ UNCHANGED <<sent, lastRecv, daemonCtx, daemon, fdstate, ring>>

\* The forked child runs to its exit.
ChildRun(t, cenv) ==
    /\ tasks[t].child.state = "running"
    /\ \E c \in {child_run(tasks[t].child, cenv)} :
           /\ tasks' = [tasks EXCEPT ![t].child = c]
           /\ daemonCtx' = parent_ctx(daemonCtx, c.ctx)
    /\ UNCHANGED <<conn, sent, lastRecv, daemon, fdstate, ring>>

\* The parent reads the record, reaps the child and decodes the result.
GetResult(t) ==
    /\ tasks[t].pc = "reading"
    /\ tasks[t].child.state = "exited"
    /\ \E r \in {forking_syscall(tasks[t].child)} :
           Finish(t, r, forking_syscall_end(tasks[t].child), tasks[t].handler, tasks[t].env)
    /\ UNCHANGED <<sent, lastRecv, daemonCtx, daemon, fdstate, ring>>

after_respond_again(task) == task

\* __handle_syscall returns after respond: the task is over, its buffer dropped
after_respond(task) == [task EXCEPT !.pc = "done", !.buf = NewBuffer]

respond_iov_with_cookie(buf) ==
    << [part |-> "proxy_msg", len |-> ProxyMsgSize],
       [part |-> "seccomp_notif", len |-> NotifSize],
       [part |-> "seccomp_resp", len |-> NotifRespSize],
       [part |-> "cookie_buf", len |-> buf.cookie_buf_len] >>

\* The scatter list of respond: the three structs, each with its compiled
\* size; the cookie buffer is not part of it.
respond_iov(buf) ==
    << [part |-> "proxy_msg", len |-> ProxyMsgSize],
       [part |-> "seccomp_notif", len |-> NotifSize],
       [part |-> "seccomp_resp", len |-> NotifRespSize] >>

RECURSIVE iov_len(_)
iov_len(iov) == IF iov = << >> THEN 0 ELSE Head(iov).len + iov_len(Tail(iov))

\* SeqPacketSocket::sendmsg_vectored: the byte count sendmsg returns; the
\* msghdr has no control buffer.  sres is what the kernel does with the
\* message: "full" or "short".
SendResults == {"full", "short"}
CoreSendResults == {"full"}

sendmsg_vectored(iov, sres) ==
    IF sres = "full" THEN iov_len(iov) ELSE iov_len(iov) - iov[Len(iov)].len

respond_ok_any(iov, n) == TRUE

\* respond: Ok only when sendmsg took the whole message
respond_ok(iov, n) == n = iov_len(iov)

\* ProxyMessageBuffer::respond: sendmsg of [proxy_msg, notif, resp].  An
\* Err of sendmsg (socket shut down, peer gone) and a short count both
\* leave the task through wrap_error.
Respond(t, sres) ==
    /\ tasks[t].pc = "respond"
    /\ LET c == tasks[t].conn
           iov == respond_iov(tasks[t].buf)
           n == sendmsg_vectored(iov, sres)
       IN  IF conn[c].shut \/ conn[c].peer = "closed"
           THEN /\ Drop(t, socket_use(conn, c))
                /\ UNCHANGED sent
           ELSE /\ sent' = [sent EXCEPT ![c] = Append(@, [seq |-> t,
                                                          proxy_msg |-> tasks[t].buf.proxy_msg,
                                                          notif |-> tasks[t].buf.seccomp_notif,
                                                          resp |-> tasks[t].buf.seccomp_resp,
                                                          st |-> tasks[t].st,
                                                          handler |-> tasks[t].handler,
                                                          forked |-> tasks[t].child.state # "none",
                                                          iov |-> iov, bytes |-> n,
                                                          controllen |-> 0])]
                /\ IF respond_ok(iov, n)
                   THEN /\ tasks' = [tasks EXCEPT ![t] = after_respond(@)]
                        /\ conn' = task_end(socket_use(conn, c), c, FALSE)
                   ELSE Drop(t, socket_use(conn, c))
    /\ UNCHANGED <<lastRecv, daemonCtx, daemon, fdstate, ring>>

\* ------------------------------------------------------- requests
\* The kernel numbers the notifications of a filter consecutively.
NotifId(n) == 2 * n + 5

PathPtr == <<4096, 0, 0, 0>>
CHR0600 == <<8576, 0, 0, 0>>
BLK0600 == <<24960, 0, 0, 0>>
REG0644 == <<33188, 0, 0, 0>>
FIFO0600 == <<4480, 0, 0, 0>>

NMknod(id, arch, nr, path, mode, dev) ==
    [id |-> id, nr |-> nr, arch |-> arch, args |-> Args(path, mode, dev, U64(0))]

NMknodAt(id, dirfd, path, mode, dev) ==
    [id |-> id, nr |-> 259, arch |-> AUDIT_ARCH_X86_64, args |-> Args(dirfd, path, mode, dev)]

NQuotactl(id, cmd, special, qid, addr) ==
    [id |-> id, nr |-> 179, arch |-> AUDIT_ARCH_X86_64, args |-> Args(cmd, special, qid, addr)]

Modes == {CHR0600, BLK0600, REG0644, FIFO0600, <<8576, 0, 1, 0>>, <<24960, 0, 1, 0>>,
          <<33188, 0, 0, 1>>}

\* dev_t values: (0,0), (1,3), (5,1), (8,0), (99,0), (1,10), and values with
\* bits of the major or minor number above the low twenty
Devs == {U64(0), U64(259), U64(1281), U64(2048), U64(25344), U64(266),
         <<259, 0, 4096, 0>>, <<259, 16, 0, 0>>, <<0, 0, 0, 1>>, <<1281, 0, 1, 0>>}

DirFds == {AtFdCwdSx, AtFdCwdZx, U64(3), <<3, 0, 1, 0>>}

SubCmds == {Q_SYNC, Q_QUOTAON, Q_QUOTAOFF, Q_GETFMT, Q_GETINFO, Q_SETINFO, Q_GETQUOTA,
            Q_SETQUOTA, Q_GETNEXTQUOTA, Q_GETNEXTQUOTA + 1}

\* ids: 5, 100, 1000, 2^31, 2^32 - 1, and a value that is no c_uint
QuotaIds == {U64(5), U64(100), U64(1000), <<0, 32768, 0, 0>>, <<65535, 65535, 0, 0>>,
             <<5, 0, 1, 0>>}

MknodNotifs(id) ==
    {NMknod(id, AUDIT_ARCH_X86_64, 133, p, m, d) : p \in {U64(0), PathPtr}, m \in Modes, d \in Devs}
    \cup {NMknod(id, AUDIT_ARCH_I386, 14, PathPtr, m, d) : m \in {CHR0600, BLK0600}, d \in {U64(259), U64(2048)}}
    \cup {NMknodAt(id, f, PathPtr, m, d) : f \in DirFds, m \in {CHR0600, BLK0600, <<8576, 0, 1, 0>>},
                                           d \in {U64(259), U64(2048), <<259, 0, 4096, 0>>}}
    \cup {NMknodAt(id, AtFdCwdZx, U64(0), m, d) : m \in {CHR0600, BLK0600}, d \in {U64(259), U64(2048)}}

QuotaNotifs(id) ==
    {NQuotactl(id, QCmd(s, k), sp, q, PathPtr) :
        s \in SubCmds, k \in {USRQUOTA, 2}, sp \in {U64(0), PathPtr}, q \in {U64(5), <<5, 0, 1, 0>>}}
    \cup {NQuotactl(id, QCmd(s, k), PathPtr, q, PathPtr) :
        s \in {Q_GETQUOTA, Q_SETQUOTA, Q_GETNEXTQUOTA}, k \in {USRQUOTA, GRPQUOTA, 2},
        q \in QuotaIds}
    \cup {NQuotactl(id, <<2048, 128, 1, 0>>, PathPtr, U64(5), PathPtr)}

\* requests for system calls the table does not name
OtherNotifs(id) ==
    { [id |-> id, nr |-> 133, arch |-> AUDIT_ARCH_AARCH64, args |-> ZeroArgs],
      [id |-> id, nr |-> 1, arch |-> AUDIT_ARCH_X86_64, args |-> ZeroArgs],
      [id |-> id, nr |-> 14, arch |-> AUDIT_ARCH_X86_64, args |-> ZeroArgs],
      [id |-> id, nr |-> -1, arch |-> AUDIT_ARCH_I386, args |-> ZeroArgs] }

\* requests in the i386 numbering
I386Notifs(id) ==
    { [id |-> id, nr |-> 297, arch |-> AUDIT_ARCH_I386,
       args |-> Args(U64(3), PathPtr, CHR0600, U64(259))],
      [id |-> id, nr |-> 131, arch |-> AUDIT_ARCH_I386,
       args |-> Args(QCmd(Q_SYNC, USRQUOTA), PathPtr, U64(0), U64(0))],
      [id |-> id, nr |-> 133, arch |-> AUDIT_ARCH_I386, args |-> ZeroArgs],
      [id |-> id, nr |-> -1, arch |-> AUDIT_ARCH_X86_64, args |-> ZeroArgs] }

AllNotifs(id) == MknodNotifs(id) \cup QuotaNotifs(id) \cup OtherNotifs(id) \cup I386Notifs(id)

GoodNotif(id) == NMknod(id, AUDIT_ARCH_X86_64, 133, PathPtr, CHR0600, U64(259))
DeniedNotif(id) == NMknod(id, AUDIT_ARCH_X86_64, 133, PathPtr, BLK0600, U64(2048))

\* Messages of the one-request specification: every envelope with two
\* requests, every request under the good envelope.
AllMsgs(id) ==
    {Msg(h, n) : h \in Hdrs, n \in {GoodNotif(id), DeniedNotif(id)}}
    \cup {Msg(GoodHdr, n) : n \in AllNotifs(id)}

\* Messages of the concurrent specification.
CoreMsgs(id) ==
    {Msg(GoodHdr, n) : n \in {GoodNotif(id), DeniedNotif(id)}}
    \cup {Msg([GoodHdr EXCEPT !.reserved0 = 1], GoodNotif(id))}

\* ------------------------------------------------------- specifications
ReqNo == Len(tasks) + 1

\* What the peers have done so far: the requests received, the messages recv
\* failed on (one per failed connection) and the closed ends.
PeerEvents ==
    Len(tasks) + Cardinality({c \in Conns : conn[c].main = "failed"})
               + Cardinality({c \in Conns : conn[c].peer = "closed"})

Next ==
    \/ \E c \in Conns : Accept(c)
    \/ \E c \in Conns : \E m \in CoreMsgs(NotifId(ReqNo)) : PeerEvents < MaxReq /\ Recv(c, m)
    \/ \E c \in Conns : (conn[c].shut \/ PeerEvents < MaxReq) /\ RecvEof(c)
    \/ \E t \in DOMAIN tasks : \E env \in CoreEnvs : TaskRun(t, env)
    \/ \E t \in DOMAIN tasks : \E cenv \in CoreChildEnvs : ChildRun(t, cenv)
    \/ \E t \in DOMAIN tasks : GetResult(t)
    \/ \E t \in DOMAIN tasks : \E sres \in CoreSendResults : Respond(t, sres)

Spec == Init /\ [][Next]_vars

\* The life of one request on one connection, inputs from the full sets.
NextReq ==
    \/ Accept(1)
    \/ \E m \in AllMsgs(NotifId(1)) : Len(tasks) = 0 /\ Recv(1, m)
    \/ RecvEof(1)
    \/ \E t \in DOMAIN tasks : \E env \in HandlerEnvs : TaskRun(t, env)
    \/ \E t \in DOMAIN tasks : \E cenv \in ChildEnvs : ChildRun(t, cenv)
    \/ \E t \in DOMAIN tasks : GetResult(t)
    \/ \E t \in DOMAIN tasks : \E sres \in SendResults : Respond(t, sres)

SpecReq == Init /\ [][NextReq]_vars

\* The steps of one request after its receipt: the runtime polls the task
\* whenever it is ready, the kernel schedules the forked child, the child
\* exits.  Each request is served fairly.
TaskStep(t) ==
    /\ t \in DOMAIN tasks
    /\ \/ \E env \in CoreEnvs : TaskRun(t, env)
       \/ \E cenv \in CoreChildEnvs : ChildRun(t, cenv)
       \/ GetResult(t)
       \/ \E sres \in CoreSendResults : Respond(t, sres)

Fairness == \A t \in 1..MaxReq : WF_vars(TaskStep(t))

\* The requests of one connection, served concurrently.
NextOne ==
    \/ Accept(1)
    \/ \E m \in CoreMsgs(NotifId(ReqNo)) : Len(tasks) < MaxReq /\ Recv(1, m)
    \/ RecvEof(1)
    \/ \E t \in DOMAIN tasks : \E env \in CoreEnvs : TaskRun(t, env)
    \/ \E t \in DOMAIN tasks : \E cenv \in CoreChildEnvs : ChildRun(t, cenv)
    \/ \E t \in DOMAIN tasks : GetResult(t)
    \/ \E t \in DOMAIN tasks : \E sres \in CoreSendResults : Respond(t, sres)

FairSpec == Init /\ [][NextOne]_vars /\ Fairness

\* The daemon from its start, under either kernel, with and without
\* --system; one kind of request.
InitStart ==
    /\ conn = [c \in Conns |-> [main |-> "none", shut |-> FALSE, peer |-> "open",
                                arcs |-> 0, uac |-> FALSE]]
    /\ tasks = << >>
    /\ sent = [c \in Conns |-> << >>]
    /\ lastRecv = [c \in Conns |-> NoRecv]
    /\ daemonCtx = DaemonCtx0
    /\ fdstate = NoWrappers
    /\ ring = Ring_new
    /\ daemon \in [phase : {"start"}, ready : {FALSE}, sizes : {"unchecked"},
                   kernel : {"match", "mismatch"}, sd : BOOLEAN]

NextStart ==
    \/ \E bound \in BOOLEAN : \E notified \in BOOLEAN : Startup(bound, notified)
    \/ \E c \in Conns : Accept(c)
    \/ \E c \in Conns : SizesPanic(c)
    \/ \E c \in Conns : PeerEvents < MaxReq /\ Recv(c, Msg(GoodHdr, GoodNotif(NotifId(ReqNo))))
    \/ \E c \in Conns : (conn[c].shut \/ PeerEvents < MaxReq) /\ RecvEof(c)
    \/ \E t \in DOMAIN tasks : TaskRun(t, BaseEnv)
    \/ \E t \in DOMAIN tasks : ChildRun(t, BaseChildEnv)
    \/ \E t \in DOMAIN tasks : GetResult(t)
    \/ \E t \in DOMAIN tasks : Respond(t, "full")

SpecStart == InitStart /\ [][NextStart]_vars

\* ------------------------------------------------------- claims
Replied(t) == \E i \in DOMAIN sent[tasks[t].conn] : sent[tasks[t].conn][i].seq = t

InFlightOf(c) == {t \in TasksOf(c) : InFlight(t)}

Answered(t) == t \in DOMAIN tasks /\ (Replied(t) \/ conn[tasks[t].conn].shut)

\* C3: every request recv accepted is eventually answered or its
\* connection is shut down by a fatal error; no request is answered twice;
\* every reply answers a request received on the same connection.
C3_AnsweredOnce ==
    /\ \A t \in 1..MaxReq : (t \in DOMAIN tasks) ~> Answered(t)
    /\ [](\A c \in Conns : \A i, j \in DOMAIN sent[c] :
              i # j => sent[c][i].seq # sent[c][j].seq)
    /\ [](\A c \in Conns : \A i \in DOMAIN sent[c] :
              /\ sent[c][i].seq \in TasksOf(c)
              /\ sent[c][i].notif.id = NotifId(sent[c][i].seq))

\* a request whose handler forked a child has been answered
C3_Witness ==
    \E c \in Conns : \E i \in DOMAIN sent[c] : sent[c][i].forked

\* The replies sent so far, on any connection.
Sent == UNION {{sent[c][i] : i \in DOMAIN sent[c]} : c \in Conns}

\* the complete replies
Replies == {e \in Sent : e.bytes = iov_len(e.iov)}

\* C4: from a successful recv until the reply is written, resp.id equals
\* notif.id, and every reply carries the id of the request it answers.
C4_IdEchoed ==
    /\ \A t \in DOMAIN tasks :
          InFlight(t) => /\ tasks[t].buf.seccomp_notif.id = NotifId(t)
                         /\ tasks[t].buf.seccomp_resp.id = tasks[t].buf.seccomp_notif.id
    /\ \A e \in Replies : e.notif.id = NotifId(e.seq) /\ e.resp.id = e.notif.id

\* a reply to a request whose handler ended in an error, with the id echoed
C4_Witness ==
    \E e \in Replies : ~e.st.ok /\ e.forked /\ e.resp.id = NotifId(1)

\* C5: a reply is (val, 0) for a handler result Ok(val), or (-1, -e) with
\* e > 0 for Err(e); the error field is never positive, and it is non-zero
\* only together with val = -1.
C5_ReplyShapes ==
    \A e \in Replies :
        /\ e.st.ok => e.resp.val = e.st.val /\ e.resp.error = 0
        /\ ~e.st.ok => e.st.err > 0 /\ e.resp.val = -1 /\ e.resp.error = -e.st.err
        /\ e.resp.error <= 0
        /\ e.resp.error # 0 => e.resp.val = -1

\* an error reply of a forked handler and its negated errno
C5_Witness ==
    \E e \in Replies : e.forked /\ e.resp.val = -1 /\ e.resp.error = -ENOENT

\* The accept-list of C6 as dev_t values: major and minor occupy disjoint
\* bits of dev_t, (major, minor) is dev = major * 256 + minor here.
AcceptedDev(mode, dev) ==
    LET sflag == (mode[1] \div 4096) * 4096
    IN  \/ sflag = S_IFREG /\ dev = U64(0)
        \/ sflag = S_IFCHR /\ dev \in {U64(0), U64(1280), U64(1281), U64(1282), U64(259),
                                       U64(261), U64(263), U64(264), U64(265)}

IsMknod(n) == translate_syscall(n.arch, n.nr) \in {"Mknod", "MknodAt"}
ModeOf(n) == IF translate_syscall(n.arch, n.nr) = "Mknod" THEN n.args[2] ELSE n.args[3]
DevOf(n) == IF translate_syscall(n.arch, n.nr) = "Mknod" THEN n.args[3] ELSE n.args[4]
Refused(n) == IsMknod(n) /\ ~AcceptedDev(ModeOf(n), DevOf(n))

MknodChildren == {t \in DOMAIN tasks : tasks[t].child.closure.sys = "mknodat"}

\* C6 as stated: a mknod / mknodat request outside the accept-list is
\* answered val = -1, error = -EPERM without a fork, and mknodat is only
\* invoked for a triple of the accept-list.
C6_RefusedIsEperm ==
    /\ \A e \in Replies :
          Refused(e.notif) => e.resp.val = -1 /\ e.resp.error = -EPERM /\ ~e.forked
    /\ \A t \in MknodChildren :
          AcceptedDev(tasks[t].child.closure.mode, tasks[t].child.closure.dev)

\* C6, amended: a mknod / mknodat request outside the accept-list is
\* answered without a fork by val = -1 and error = -EPERM when the mode
\* argument fits mode_t (32 bits), error = -EINVAL when it does not; no
\* child is forked for it, and mknodat is only invoked for a mode that fits
\* mode_t and a triple of the accept-list.
C6_RefusedNoFork ==
    /\ \A e \in Replies :
          Refused(e.notif) =>
              /\ e.resp.val = -1
              /\ e.resp.error = IF FitsU32(ModeOf(e.notif)) THEN -EPERM ELSE -EINVAL
              /\ ~e.forked
    /\ \A t \in DOMAIN tasks :
          Refused(tasks[t].buf.seccomp_notif) => tasks[t].child.state = "none"
    /\ \A t \in MknodChildren :
          /\ FitsU32(tasks[t].child.closure.mode)
          /\ AcceptedDev(tasks[t].child.closure.mode, tasks[t].child.closure.dev)

\* a block device request answered EPERM without a fork
C6_Witness ==
    \E e \in Replies : /\ e.notif = DeniedNotif(NotifId(1))
                       /\ e.resp.error = -EPERM /\ ~e.forked

\* C7: the daemon's own cgroups, mount namespace, root, cwd, profile,
\* umask, securebits, ids and capabilities never change; what a closure
\* changes, it changes in the forked child.
C7_DaemonUntouched ==
    /\ daemonCtx = DaemonCtx0
    /\ \A t \in DOMAIN tasks :
          tasks[t].child.state = "none" => tasks[t].child.ops = << >>

\* a child has entered the caller's context and made the forwarded call
C7_Witness ==
    \E t \in DOMAIN tasks :
        /\ tasks[t].child.state = "exited"
        /\ tasks[t].child.ctx.mntns = CallerCtx.mntns
        /\ tasks[t].child.ctx.euid = CallerCtx.euid
        /\ \E i \in DOMAIN tasks[t].child.ops : tasks[t].child.ops[i] = "mknodat"

\* The steps of C8 in the order the claim gives them.
ClaimOrder == << "cgroup_devices", "cgroup_v2", "setns_mnt", "chroot", "fchdir_cwd",
                 "changeprofile", "umask", "securebits", "setegid", "setfsgid", "seteuid",
                 "setfsuid", "capset" >>

Names(seq) == {seq[i] : i \in DOMAIN seq}

\* the steps of the claim that a snapshot asks for
Wanted(caps, name) ==
    /\ name = "cgroup_devices" => caps.cgroup_v1_devices
    /\ name = "cgroup_v2" => caps.cgroup_v2
    /\ name = "changeprofile" => caps.apparmor_profile

ExpectedSteps(caps) == LET W(name) == Wanted(caps, name) IN SelectSeq(ClaimOrder, W)

NamedSteps(ops) == LET N(name) == name \in Names(ClaimOrder) IN SelectSeq(ops, N)

IsPrefix(p, s) == Len(p) <= Len(s) /\ SubSeq(s, 1, Len(p)) = p

Children == {t \in DOMAIN tasks : tasks[t].child.state = "exited"}

\* C8: the steps of UserCaps::apply a child has taken are a prefix of:
\* cgroup v1 devices, cgroup v2, setns, chroot, fchdir to the cwd,
\* changeprofile (if a label was captured), umask, securebits, setegid,
\* setfsgid, seteuid, setfsuid, capset; the forwarded syscall is the last
\* call of the child and comes after all of them.
C8_ApplyOrder ==
    \A t \in Children :
        LET ops == tasks[t].child.ops
            cl == tasks[t].child.closure
        IN  /\ IsPrefix(NamedSteps(ops), ExpectedSteps(cl.caps))
            /\ \A i \in DOMAIN ops :
                  ops[i] \in {"mknodat", "quotactl"} =>
                      /\ i = Len(ops)
                      /\ ops[i] = cl.sys
                      /\ NamedSteps(ops) = ExpectedSteps(cl.caps)

\* a child went through all thirteen steps and made the forwarded call
C8_Witness ==
    \E t \in Children :
        /\ NamedSteps(tasks[t].child.ops) = ClaimOrder
        /\ tasks[t].child.ops[Len(tasks[t].child.ops)] = "quotactl"

\* The envelopes of C9: a non-empty message with reserved0 set, other
\* sizes than the cached ones, or a byte count that is not fixed size +
\* cookie_len.
BadEnvelope(h) ==
    /\ h.len # 0
    /\ \/ h.reserved0 # 0
       \/ h.sizes # SECCOMP_SIZES
       \/ h.len # ProxyMsgSize + NotifSize + NotifRespSize + h.cookie_len

\* C9: when recv returns on such a message it fails: no handler task is
\* spawned, nothing is sent, the socket is shut down and the receive loop
\* has ended.
C9_BadEnvelopeDrops ==
    [][\A c \in Conns :
          lastRecv'[c].n # lastRecv[c].n /\ BadEnvelope(lastRecv'[c].hdr) =>
              /\ lastRecv'[c].res = "err"
              /\ tasks' = tasks
              /\ sent' = sent
              /\ conn'[c].shut
              /\ conn'[c].main = "failed"]_vars

\* a message with foreign sizes has ended the connection
C9_Witness ==
    \E c \in Conns : /\ lastRecv[c].res = "err"
                     /\ lastRecv[c].hdr.sizes # SECCOMP_SIZES
                     /\ lastRecv[c].hdr.reserved0 = 0
                     /\ lastRecv[c].hdr.len = ProxyMsgSize + NotifSize + NotifRespSize
                     /\ lastRecv[c].hdr.cookie_len = 0
                     /\ conn[c].shut /\ conn[c].main = "failed" /\ TasksOf(c) = {}

\* The control messages of C10 on an otherwise valid message.
BadControl(h) ==
    /\ h.len # 0
    /\ ~BadEnvelope(h)
    /\ h.pidok
    /\ \/ h.cmsg.buflen < CmsgHdrSize
       \/ h.cmsg.cmsg_level # SOL_SOCKET
       \/ h.cmsg.cmsg_type # SCM_RIGHTS
       \/ h.cmsg.cmsg_len # CmsgHdrSize + 2 * RawFdSize

\* C10: when recv returns on a message without control message, with one
\* that is not SOL_SOCKET / SCM_RIGHTS, or with other than two file
\* descriptors, it fails: no handler task, no reply, socket shut down.
C10_BadControlDrops ==
    [][\A c \in Conns :
          lastRecv'[c].n # lastRecv[c].n /\ BadControl(lastRecv'[c].hdr) =>
              /\ lastRecv'[c].res = "err"
              /\ tasks' = tasks
              /\ sent' = sent
              /\ conn'[c].shut]_vars

\* C11: a message that declares a cookie longer than the buffer's cookie
\* capacity makes recv fail and the socket is shut down, no handler task is
\* spawned; after a successful recv the declared cookie length is within
\* the capacity and is the stored cookie length.
C11_CookieBounded ==
    [][\A c \in Conns :
          lastRecv'[c].n # lastRecv[c].n =>
              /\ lastRecv'[c].hdr.len # 0 /\ lastRecv'[c].hdr.cookie_len > MaxCookie =>
                    /\ lastRecv'[c].res = "err"
                    /\ conn'[c].shut
                    /\ tasks' = tasks
                    /\ sent' = sent
              /\ lastRecv'[c].res = "ok" =>
                    /\ lastRecv'[c].hdr.cookie_len <= MaxCookie
                    /\ tasks'[Len(tasks')].buf.proxy_msg.cookie_len = lastRecv'[c].hdr.cookie_len
                    /\ tasks'[Len(tasks')].buf.cookie_buf_len = lastRecv'[c].hdr.cookie_len]_vars

\* a message filling the buffers with a declared cookie beyond the capacity
\* has ended the connection
C11_Witness ==
    \E c \in Conns : /\ lastRecv[c].res = "err"
                     /\ lastRecv[c].hdr.cookie_len > MaxCookie
                     /\ lastRecv[c].hdr.len = seccomp_packet_size + MaxCookie
                     /\ lastRecv[c].hdr.reserved0 = 0
                     /\ lastRecv[c].hdr.sizes = SECCOMP_SIZES
                     /\ conn[c].shut /\ TasksOf(c) = {}

\* a request with a cookie of the full capacity was received
C11_WitnessFull ==
    \E t \in DOMAIN tasks : tasks[t].buf.cookie_buf_len = MaxCookie

\* The six (arch, nr) pairs of C12 and the handler of each.
C12_Table ==
    { << <<62, 49152>>, 133, "Mknod" >>, << <<62, 49152>>, 259, "MknodAt" >>,
      << <<62, 49152>>, 179, "Quotactl" >>,
      << <<3, 16384>>, 14, "Mknod" >>, << <<3, 16384>>, 297, "MknodAt" >>,
      << <<3, 16384>>, 131, "Quotactl" >> }

TableHandler(n) ==
    IF \E e \in C12_Table : e[1] = n.arch /\ e[2] = n.nr
    THEN (CHOOSE e \in C12_Table : e[1] = n.arch /\ e[2] = n.nr)[3]
    ELSE "None"

\* C12: a request is dispatched to the handler the table names for its
\* (arch, nr), and to no handler when the table does not name the pair;
\* then no child is forked and the reply is val = -1, error = -ENOSYS.
C12_DispatchByTable ==
    /\ \A e \in Replies :
          /\ e.handler = TableHandler(e.notif)
          /\ e.handler = "None" => ~e.forked /\ e.resp.val = -1 /\ e.resp.error = -ENOSYS
    /\ \A t \in DOMAIN tasks :
          InFlight(t) /\ tasks[t].handler # "unset" =>
              /\ tasks[t].handler = TableHandler(tasks[t].buf.seccomp_notif)
              /\ tasks[t].handler = "None" => tasks[t].child.state = "none"

\* ENOSYS, without a fork, for the i386 number of mknod under x86_64
C12_Witness ==
    \E e \in Replies : /\ e.notif.arch = AUDIT_ARCH_X86_64 /\ e.notif.nr = 14
                          /\ e.resp.error = -ENOSYS /\ ~e.forked

\* The requests of C13: mknod / mknodat with a mode that is a mode_t, a
\* triple of the accept-list, a pathname pointer, and for mknodat a
\* directory fd that is AT_FDCWD or a descriptor number.
PathOf(n) == IF translate_syscall(n.arch, n.nr) = "Mknod" THEN n.args[1] ELSE n.args[2]

IsAtFdCwd(a) == a \in {AtFdCwdSx, AtFdCwdZx}

ForwardableMknod(n) ==
    /\ IsMknod(n)
    /\ FitsU32(ModeOf(n))
    /\ AcceptedDev(ModeOf(n), DevOf(n))
    /\ PathOf(n) # U64(0)
    /\ translate_syscall(n.arch, n.nr) = "MknodAt" => IsAtFdCwd(n.args[1]) \/ FitsI32(n.args[1])

\* the directory the claim resolves the path against
ClaimedDirfd(n) ==
    IF translate_syscall(n.arch, n.nr) = "Mknod" \/ IsAtFdCwd(n.args[1])
    THEN [kind |-> "cwd", num |-> 0]
    ELSE [kind |-> "fd", num |-> n.args[1][2] * Limb + n.args[1][1]]

\* the caller's memory and /proc entries were readable, fork succeeded
EnvReadable(env) ==
    env.mem = "ok" /\ env.open = "ok" /\ env.caps = "ok" /\ env.fork = "ok"

Count(seq, x) == Cardinality({i \in DOMAIN seq : seq[i] = x})

\* C13: every such request, its arguments readable, is forwarded: a child
\* is forked, and a child that has entered the caller's context calls
\* mknodat once with the directory resolved from the caller (its cwd for
\* mknod and for AT_FDCWD, its descriptor otherwise), the caller's
\* pathname, mode and dev; the reply is the kernel's result.
C13_MknodForwarded ==
    \A e \in Replies :
        LET task == tasks[e.seq]
            ch == task.child
        IN  ForwardableMknod(e.notif) /\ EnvReadable(task.env) =>
                /\ e.forked
                /\ ch.cenv.failAt = 0 =>
                      /\ Count(ch.ops, "mknodat") = 1
                      /\ ch.closure.dirfd = ClaimedDirfd(e.notif)
                      /\ ch.closure.pathname = PathOf(e.notif)
                      /\ ch.closure.mode = ModeOf(e.notif)
                      /\ ch.closure.dev = DevOf(e.notif)
                      /\ e.resp.val = (IF ch.cenv.sysres = 0 THEN 0 ELSE -1)
                      /\ e.resp.error = -ch.cenv.sysres

\* C13 without AT_FDCWD: what the code does for mknod and for mknodat with
\* a descriptor number.
C13_ForwardedByNumber ==
    \A e \in Replies :
        LET task == tasks[e.seq]
            ch == task.child
        IN  /\ ForwardableMknod(e.notif) /\ EnvReadable(task.env)
            /\ translate_syscall(e.notif.arch, e.notif.nr) = "MknodAt" => ~IsAtFdCwd(e.notif.args[1])
            =>  /\ e.forked
                /\ ch.cenv.failAt = 0 =>
                      /\ Count(ch.ops, "mknodat") = 1
                      /\ ch.closure.dirfd = ClaimedDirfd(e.notif)
                      /\ ch.closure.pathname = PathOf(e.notif)
                      /\ ch.closure.mode = ModeOf(e.notif)
                      /\ ch.closure.dev = DevOf(e.notif)
                      /\ e.resp.val = (IF ch.cenv.sysres = 0 THEN 0 ELSE -1)
                      /\ e.resp.error = -ch.cenv.sysres

\* mknodat relative to a descriptor was forwarded and the kernel's errno
\* came back
C13_WitnessByNumber ==
    \E e \in Replies : /\ translate_syscall(e.notif.arch, e.notif.nr) = "MknodAt"
                       /\ e.forked
                       /\ tasks[e.seq].child.closure.dirfd = [kind |-> "fd", num |-> 3]
                       /\ e.resp.error = -ENOENT

\* ---------------------------------------------------------------- C14
\* The quotactl requests whose arg 2 is a uid or gid: the three
\* subcommands with kind USRQUOTA or GRPQUOTA, a cmd and an id of 32 bits
\* and a special path.
QuotaIdRequest(n) ==
    /\ TableHandler(n) = "Quotactl"
    /\ FitsU32(n.args[1]) /\ FitsU32(n.args[3])
    /\ n.args[2] # U64(0)
    /\ n.args[1][1] % 256 \in {USRQUOTA, GRPQUOTA}
    /\ n.args[1][2] * 256 + n.args[1][1] \div 256 \in {Q_GETQUOTA, Q_SETQUOTA, Q_GETNEXTQUOTA}

Covers(entry, id) == Le64(entry.ns, id) /\ Lt64(Sub64(id, entry.ns), entry.range)

Covered(map, id) == \E i \in DOMAIN map : Covers(map[i], id)

HostId(map, id) ==
    LET entry == map[CHOOSE i \in DOMAIN map : Covers(map[i], id)]
    IN  Add64(entry.host, Sub64(id, entry.ns))

\* the int handed to quotactl, as the 32 bits the kernel reads
AsU32(i) == <<i % Limb, (i \div Limb) % Limb, 0, 0>>

\* C14: an id inside an entry's namespace range reaches the kernel as
\* host_start + (id - ns_start) in a forked child; an id covered by no
\* entry is answered error = -ERANGE with no fork.
C14_IdTranslated ==
    /\ \A t \in DOMAIN tasks :
          LET task == tasks[t]
              n == task.buf.seccomp_notif
          IN  /\ task.handler = "Quotactl" /\ QuotaIdRequest(n)
              /\ EnvReadable(task.env) /\ task.env.idmapok
              /\ Covered(task.env.idmap, n.args[3])
              =>  /\ task.child.state # "none"
                  /\ AsU32(task.child.closure.id) = HostId(task.env.idmap, n.args[3])
    /\ \A e \in Replies :
          LET task == tasks[e.seq]
          IN  /\ QuotaIdRequest(e.notif)
              /\ EnvReadable(task.env) /\ task.env.idmapok
              /\ ~Covered(task.env.idmap, e.notif.args[3])
              =>  ~e.forked /\ e.resp.val = -1 /\ e.resp.error = -ERANGE

\* C14 for the ids and host ids below 2^31, which is what the code does.
C14_IdTranslatedBelowIntMax ==
    /\ \A t \in DOMAIN tasks :
          LET task == tasks[t]
              n == task.buf.seccomp_notif
          IN  /\ task.handler = "Quotactl" /\ QuotaIdRequest(n)
              /\ EnvReadable(task.env) /\ task.env.idmapok
              /\ Covered(task.env.idmap, n.args[3])
              /\ FitsI32(n.args[3]) /\ FitsI32(HostId(task.env.idmap, n.args[3]))
              =>  /\ task.child.state # "none"
                  /\ AsU32(task.child.closure.id) = HostId(task.env.idmap, n.args[3])
    /\ \A e \in Replies :
          LET task == tasks[e.seq]
          IN  /\ QuotaIdRequest(e.notif)
              /\ EnvReadable(task.env) /\ task.env.idmapok
              /\ ~Covered(task.env.idmap, e.notif.args[3])
              =>  ~e.forked /\ e.resp.val = -1 /\ e.resp.error = -ERANGE

\* id 5 of the caller's namespace, in the second entry (5, 2000, 10),
\* reached the kernel as host id 2000
C14_WitnessMapped ==
    \E t \in DOMAIN tasks :
        /\ QuotaIdRequest(tasks[t].buf.seccomp_notif)
        /\ tasks[t].buf.seccomp_notif.args[3] = U64(5)
        /\ tasks[t].child.state = "reaped"
        /\ tasks[t].child.closure.id = 2000

\* an id covered by no entry was answered -ERANGE
C14_WitnessUnmapped ==
    \E e \in Replies :
        /\ QuotaIdRequest(e.notif)
        /\ ~Covered(tasks[e.seq].env.idmap, e.notif.args[3])
        /\ e.resp.error = -ERANGE

\* 2^31, inside the range of the initial namespace's map, was answered
\* -ERANGE with no fork
C14_WitnessHighId ==
    \E e \in Replies :
        /\ QuotaIdRequest(e.notif)
        /\ e.notif.args[3] = <<0, 32768, 0, 0>>
        /\ Covered(tasks[e.seq].env.idmap, e.notif.args[3])
        /\ ~e.forked /\ e.resp.error = -ERANGE

\* id 1000 maps to a host id above 2^31 - 1 and was answered -ERANGE
C14_WitnessHighHost ==
    \E e \in Replies :
        /\ QuotaIdRequest(e.notif)
        /\ e.notif.args[3] = U64(1000)
        /\ ~FitsI32(HostId(tasks[e.seq].env.idmap, e.notif.args[3]))
        /\ ~e.forked /\ e.resp.error = -ERANGE

\* ---------------------------------------------------------------- C15
SubCmdOf(n) == n.args[1][2] * 256 + n.args[1][1] \div 256

HostCovers(entry, id) == Le64(entry.host, id) /\ Lt64(Sub64(id, entry.host), entry.range)

HostCovered(map, id) == \E i \in DOMAIN map : HostCovers(map[i], id)

NsId(map, id) ==
    LET entry == map[CHOOSE i \in DOMAIN map : HostCovers(map[i], id)]
    IN  Add64(entry.ns, Sub64(id, entry.host))

\* The replies to Q_GETNEXTQUOTA with a uid or gid whose child ran its
\* closure to the end of a successful quotactl call.
NextQuotaSucceeded(e) ==
    /\ QuotaIdRequest(e.notif) /\ SubCmdOf(e.notif) = Q_GETNEXTQUOTA
    /\ e.forked
    /\ tasks[e.seq].child.cenv.fate = "run"
    /\ tasks[e.seq].child.cenv.failAt = 0
    /\ tasks[e.seq].child.cenv.sysres = 0

\* C15: the dqb_id the kernel returned is written to the caller mapped
\* into its namespace, with the reply val = 0, error = 0; a returned id
\* that no entry covers is answered error = -ERANGE and nothing is
\* written.
C15_NextIdMappedBack ==
    \A e \in Replies :
        LET ch == tasks[e.seq].child
            map == tasks[e.seq].env.idmap
            ret == U64(ch.cenv.retid)
        IN  NextQuotaSucceeded(e) =>
                IF HostCovered(map, ret)
                THEN ch.cenv.memw = "ok" =>
                        /\ ch.wrote.done /\ ch.wrote.dqb_id = NsId(map, ret)
                        /\ e.resp.val = 0 /\ e.resp.error = 0
                ELSE /\ ~ch.wrote.done
                     /\ e.resp.val = -1 /\ e.resp.error = -ERANGE

\* with the map (0, 100000, 65536) the returned 100123 was written as 123
C15_Witness ==
    \E e \in Replies :
        /\ NextQuotaSucceeded(e)
        /\ tasks[e.seq].env.idmap = << IdMapEntry(0, 100000, 65536) >>
        /\ tasks[e.seq].child.cenv.retid = 100123
        /\ tasks[e.seq].child.wrote = [done |-> TRUE, dqb_id |-> U64(123)]
        /\ e.resp.val = 0 /\ e.resp.error = 0

\* the returned id 7 is covered by no entry: -ERANGE, nothing written
C15_WitnessUnmapped ==
    \E e \in Replies :
        /\ NextQuotaSucceeded(e)
        /\ tasks[e.seq].child.cenv.retid = 7
        /\ ~HostCovered(tasks[e.seq].env.idmap, U64(7))
        /\ ~tasks[e.seq].child.wrote.done
        /\ e.resp.error = -ERANGE

C16_WitnessSetInfo ==
    \E e \in Replies :
        /\ TableHandler(e.notif) = "Quotactl"
        /\ SubCmdOf(e.notif) = Q_SETINFO
        /\ e.notif.args[2] = U64(0)
        /\ e.resp.error = -EINVAL

\* ---------------------------------------------------------------- C17
\* Closure results: Ok(v), Err(e) with a positive errno, and a failure
\* whose io::Error has the raw OS error e (0: it has none).
ClosureResults ==
    {CRes("ok", v, 0) : v \in {0, 1, -1, 4096}}
    \cup {CRes("err", 0, e) : e \in {EPERM, ENOENT, ERANGE}}
    \cup {CRes("fail", 0, e) : e \in {0, EPERM, ERANGE}}

\* What the parent is to decode from the record of a closure result.
Decoded(res) ==
    IF res.kind = "ok" THEN RStatus(StOk(res.val))
    ELSE IF res.kind = "err" THEN RStatus(StErr(res.errno))
    ELSE RError("io", IF res.errno = 0 THEN EFAULT ELSE res.errno)

\* C17: the record round-trips the closure result, for the results above
\* and for the record of every child that wrote one; the task of a child
\* that ran to its exit holds the decoded status.
C17_RecordRoundTrip ==
    /\ \A res \in ClosureResults : get_result(Data(res)) = Decoded(res)
    /\ \A t \in DOMAIN tasks :
          LET ch == tasks[t].child
          IN  /\ ch.state \in {"exited", "reaped"} /\ ch.rec.present
                 => get_result(ch.rec) = Decoded(ch.res)
              /\ ch.state = "reaped" /\ ch.cenv.fate = "run" /\ tasks[t].pc = "respond"
                 => tasks[t].st = (IF ch.res.kind = "ok" THEN StOk(ch.res.val)
                                   ELSE IF ch.res.errno = 0 THEN StErr(EFAULT)
                                   ELSE StErr(ch.res.errno))

\* a failure whose io::Error had no raw OS error was decoded as EFAULT
C17_Witness ==
    \E t \in DOMAIN tasks :
        /\ tasks[t].child.state = "reaped"
        /\ tasks[t].child.res = CRes("fail", 0, 0)
        /\ tasks[t].child.rec.failure = EFAULT
        /\ tasks[t].pc = "respond" /\ tasks[t].st = StErr(EFAULT)

\* the kernel's errno of the forwarded syscall was decoded as Err
C17_WitnessErr ==
    \E t \in DOMAIN tasks :
        /\ tasks[t].child.state = "reaped"
        /\ tasks[t].child.res = CRes("err", 0, ENOENT)
        /\ tasks[t].pc = "respond" /\ tasks[t].st = StErr(ENOENT)

\* ---------------------------------------------------------------- C18
RepliesTo(t) == {e \in Replies : e.seq = t}

Fatal(t) ==
    /\ tasks[t].pc = "dropped"
    /\ conn[tasks[t].conn].shut
    /\ RepliesTo(t) = {}

\* C18 as claimed: a non-zero wait status is fatal whatever the record.
C18_NonZeroStatusFatal ==
    \A t \in DOMAIN tasks :
        tasks[t].child.state = "reaped" /\ tasks[t].child.status # 0 => Fatal(t)

\* C18: after a non-zero wait status, a missing record and a record that
\* decodes to Ok or Err are fatal and no reply is built from the record; a
\* failure record is answered val = -1, error = -failure.
C18_NonZeroStatusFatalUnlessFailure ==
    \A t \in DOMAIN tasks :
        LET ch == tasks[t].child
        IN  ch.state = "reaped" /\ ch.status # 0 =>
                IF ch.rec.present /\ ch.rec.failure # 0
                THEN /\ tasks[t].pc = "respond" => tasks[t].st = StErr(ch.rec.failure)
                     /\ \A e \in RepliesTo(t) :
                            e.resp.val = -1 /\ e.resp.error = -ch.rec.failure
                ELSE Fatal(t)

\* the child wrote a complete record of Ok(0) and was killed: fatal
C18_Witness ==
    \E t \in DOMAIN tasks :
        /\ tasks[t].child.state = "reaped" /\ tasks[t].child.status = 9
        /\ tasks[t].child.rec = [present |-> TRUE, val |-> 0, error |-> 0, failure |-> 0]
        /\ Fatal(t)

\* the child wrote a failure record and was killed: answered -EPERM
C18_WitnessFailure ==
    \E t \in DOMAIN tasks :
        /\ tasks[t].child.state = "reaped" /\ tasks[t].child.status = 9
        /\ tasks[t].child.rec.failure = EPERM
        /\ \E e \in RepliesTo(t) : e.resp.val = -1 /\ e.resp.error = -EPERM

\* ---------------------------------------------------------------- C19
Returned(t) == tasks[t].pc \in {"respond", "done", "dropped"}

\* C19: no child is waited for twice, and once forking_syscall has
\* returned its child has been reaped by one waitpid.
C19_ReapedOnce ==
    \A t \in DOMAIN tasks :
        LET ch == tasks[t].child
        IN  /\ ch.waits <= 1
            /\ Returned(t) /\ ch.state # "none" => ch.state = "reaped" /\ ch.waits = 1

\* C19 for the children whose Fork value was built.
C19_ReapedOnceWithForkValue ==
    \A t \in DOMAIN tasks :
        LET ch == tasks[t].child
        IN  /\ ch.waits <= 1
            /\ Returned(t) /\ ch.state # "none" /\ tasks[t].env.fork # "stream"
               => ch.state = "reaped" /\ ch.waits = 1

\* a child after a failure record was reaped by the Drop of its Fork value
C19_WitnessDrop ==
    \E t \in DOMAIN tasks :
        /\ Returned(t)
        /\ tasks[t].child.rec.failure # 0
        /\ tasks[t].child.state = "reaped" /\ tasks[t].child.waits = 1

\* the pipe could not be registered after fork: forking_syscall returned,
\* the child exited and nobody waits for it
C19_WitnessZombie ==
    \E t \in DOMAIN tasks :
        /\ tasks[t].pc = "dropped"
        /\ tasks[t].env.fork = "stream"
        /\ tasks[t].child.state = "exited" /\ tasks[t].child.waits = 0

\* ---------------------------------------------------------------- C20
Panicked(t) == tasks[t].child.state # "none" /\ tasks[t].child.cenv.fate = "panic"

\* C20 as claimed: the panic reaches the caller as errno EFAULT.
C20_PanicIsEfault ==
    \A t \in DOMAIN tasks :
        Panicked(t) /\ Returned(t) =>
            /\ tasks[t].pc = "respond" => tasks[t].st = StErr(EFAULT)
            /\ tasks[t].pc = "dropped" => RepliesTo(t) # {}
            /\ \A e \in RepliesTo(t) : e.resp.val = -1 /\ e.resp.error = -EFAULT

\* C20: a panic of the closure ends the child with exit status 255 and no
\* record; the parent's read fails, which is fatal for the connection (no
\* reply, socket shut down); the task never calls Fork::wait a second
\* time, so the unwrap there does not panic.
C20_PanicIsFatal ==
    \A t \in DOMAIN tasks :
        LET ch == tasks[t].child
        IN  /\ Panicked(t) /\ ch.state \in {"exited", "reaped"}
               => ch.status = 255 /\ ~ch.rec.present
            /\ Panicked(t) /\ Returned(t)
               => Fatal(t) /\ ch.waits <= 1

\* the closure panicked, the child was reaped and the connection shut down
C20_Witness ==
    \E t \in DOMAIN tasks :
        /\ Panicked(t) /\ Fatal(t)
        /\ tasks[t].child.state = "reaped" /\ tasks[t].child.status = 255

\* ---------------------------------------------------------------- C21
\* The handler returned an error that carries an errno: a nix Errno, or an
\* io::Error with a raw OS error.
CarriesErrno(r) ==
    /\ r.k = "error"
    /\ r.error.kind \in {"errno", "nix"} \/ (r.error.kind = "io" /\ r.error.errno # 0)

StillServing(c) ==
    ~conn[c].shut /\ (conn[c].main = "recv" \/ conn[c].peer = "closed")

\* C21: an error with an errno is answered val = -1, error = -errno and
\* leaves the connection receiving; an error without an errno is fatal:
\* no reply, the socket shut down.
C21_ErrnoRepliedElseFatal ==
    \A t \in DOMAIN tasks :
        LET r == tasks[t].result
            c == tasks[t].conn
        IN  /\ CarriesErrno(r) =>
                /\ tasks[t].pc \in {"respond", "done", "dropped"}
                /\ tasks[t].pc = "respond" =>
                      /\ tasks[t].buf.seccomp_resp.val = -1
                      /\ tasks[t].buf.seccomp_resp.error = -r.error.errno
                /\ tasks[t].pc = "done" => RepliesTo(t) # {} /\ StillServing(c)
                /\ tasks[t].pc = "dropped" =>
                      conn[c].peer = "closed" \/ \E e \in Sent : e.seq = t
                /\ \A e \in RepliesTo(t) :
                      e.resp.val = -1 /\ e.resp.error = -r.error.errno
            /\ r.k = "error" /\ ~CarriesErrno(r) => Fatal(t)

\* an id outside the map was answered -ERANGE, the connection still open
C21_Witness ==
    \E t \in DOMAIN tasks :
        /\ tasks[t].result = [k |-> "error", error |-> [kind |-> "errno", errno |-> ERANGE]]
        /\ tasks[t].pc = "done" /\ StillServing(tasks[t].conn)
        /\ conn[tasks[t].conn].main = "recv"
        /\ \E e \in RepliesTo(t) : e.resp.error = -ERANGE

\* an I/O error of the child while it applied the caps was answered -EPERM
C21_WitnessChild ==
    \E t \in DOMAIN tasks :
        /\ tasks[t].child.res = CRes("fail", 0, EPERM)
        /\ tasks[t].result = [k |-> "error", error |-> [kind |-> "io", errno |-> EPERM]]
        /\ \E e \in RepliesTo(t) : e.resp.error = -EPERM

\* an error without errno: no reply, the socket shut down
C21_WitnessFatal ==
    \E t \in DOMAIN tasks :
        /\ tasks[t].result.k = "error" /\ tasks[t].result.error.kind = "other"
        /\ Fatal(t)

\* ---------------------------------------------------------------- C22
SentFor(t) == {<<c, i>> \in Conns \X (1..MaxReq) : i \in DOMAIN sent[c] /\ sent[c][i].seq = t}

\* C22: a sendmsg that took fewer bytes than the reply has ends the task
\* with an error: the socket is shut down, and that sendmsg stays the only
\* one for the request.
C22_ShortWriteFatal ==
    \A e \in Sent :
        e.bytes < iov_len(e.iov) =>
            /\ tasks[e.seq].pc = "dropped"
            /\ conn[tasks[e.seq].conn].shut
            /\ Cardinality(SentFor(e.seq)) = 1

\* 104 of the 136 bytes were taken: task dropped, socket shut down
C22_Witness ==
    \E e \in Sent :
        /\ e.bytes = ProxyMsgSize + NotifSize /\ iov_len(e.iov) = seccomp_packet_size
        /\ tasks[e.seq].pc = "dropped"
        /\ conn[tasks[e.seq].conn].shut

\* ---------------------------------------------------------------- C23
Accepted == {c \in Conns : conn[c].main # "none"}

\* C23: connections are accepted and readiness is signalled only by a
\* daemon whose sizes check has run and passed; under a kernel with other
\* sizes the daemon never listens.
C23_SizesCheckedAtStartup ==
    /\ Accepted # {} => daemon.sizes = "ok"
    /\ daemon.ready => daemon.sizes = "ok"
    /\ daemon.kernel = "mismatch" => daemon.phase # "listening"

\* What the code gives: the check has passed before the first message is
\* received, and under a kernel with other sizes no request is served.
C23_SizesCheckedBeforeRecv ==
    /\ (\E c \in Conns : lastRecv[c].n > 0) \/ tasks # << >> => daemon.sizes = "ok"
    /\ daemon.kernel = "mismatch" => tasks = << >> /\ Sent = {}

\* READY=1 was sent and a connection accepted, the sizes never looked at
C23_WitnessUnchecked ==
    /\ daemon.ready /\ daemon.sizes = "unchecked"
    /\ Accepted # {}

\* under a kernel with other sizes the daemon signalled readiness, accepted
\* two connections and lost both tasks to the panic
C23_WitnessMismatch ==
    /\ daemon.kernel = "mismatch" /\ daemon.phase = "listening" /\ daemon.ready
    /\ daemon.sizes = "poisoned"
    /\ conn[1].main = "panicked" /\ conn[2].main = "panicked"

\* ---------------------------------------------------------------- C24
Parts(iov) == [i \in DOMAIN iov |-> iov[i].part]

\* C24: whatever the cookie length of the request, a reply is the
\* envelope, the notification and the response, in this order and each in
\* its full size, nothing after them and no control message.
C24_ReplyLayout ==
    \A e \in Replies :
        /\ e.proxy_msg.cookie_len \in 0..MaxCookie
        /\ Parts(e.iov) = <<"proxy_msg", "seccomp_notif", "seccomp_resp">>
        /\ e.iov[1].len = ProxyMsgSize
        /\ e.iov[2].len = SECCOMP_SIZES.notif
        /\ e.iov[3].len = SECCOMP_SIZES.notif_resp
        /\ e.bytes = ProxyMsgSize + SECCOMP_SIZES.notif + SECCOMP_SIZES.notif_resp
        /\ e.controllen = 0

\* a request with a cookie of max_cookie bytes was answered in 136 bytes
C24_Witness ==
    \E e \in Replies : e.proxy_msg.cookie_len = MaxCookie /\ e.bytes = 136

\* a request with a cookie of 4 bytes was answered in 136 bytes
C24_WitnessSmallCookie ==
    \E e \in Replies : e.proxy_msg.cookie_len = 4 /\ e.bytes = 136

\* ---------------------------------------------------------------- C25
\* What belongs to connection d is the same before and after the step: its
\* socket and receive loop, its replies, its tasks with their buffers,
\* descriptors and children; and no task is added to it.
Untouched(d) ==
    /\ conn'[d] = conn[d]
    /\ sent'[d] = sent[d]
    /\ lastRecv'[d] = lastRecv[d]
    /\ \A t \in DOMAIN tasks : tasks[t].conn = d => tasks'[t] = tasks[t]
    /\ \A t \in DOMAIN tasks' : tasks'[t].conn = d => t \in DOMAIN tasks

\* the socket of c was shut down by c itself: a failed recv or a task of
\* c that ended with an error
OwnShutdown(c) ==
    \/ conn[c].main = "failed"
    \/ \E t \in TasksOf(c) : tasks[t].pc = "dropped"

C25_WitnessFatal ==
    /\ \E t \in TasksOf(1) : tasks[t].pc = "dropped" /\ tasks[t].result.k = "error"
    /\ conn[1].shut
    /\ ~conn[2].shut /\ conn[2].main = "recv"
    /\ \E e \in Replies : tasks[e.seq].conn = 2

\* ---------------------------------------------------------------- C27
\* Requests and environments that exercise the id maps: a quotactl call
\* with an id, under each map, the kernel returning each of MapHostIds.
MapIds == {U64(0), U64(4), U64(5), U64(14), U64(15), U64(1000), U64(2000),
           U64(65535), U64(65536), U64(100000)}

MapHostIds == {0, 7, 999, 1000, 1004, 1005, 1999, 2000, 2009, 2010, 65535,
               100000, 100123, 165535, 165536, 2147483000, 2147483647}

NextMap ==
    \/ Accept(1)
    \/ \E s \in {Q_GETQUOTA, Q_SETQUOTA, Q_GETNEXTQUOTA} : \E k \in {USRQUOTA, GRPQUOTA} :
       \E q \in MapIds :
           /\ Len(tasks) = 0
           /\ Recv(1, Msg(GoodHdr, NQuotactl(NotifId(1), QCmd(s, k), PathPtr, q, PathPtr)))
    \/ RecvEof(1)
    \/ \E t \in DOMAIN tasks : \E i \in IdMaps : TaskRun(t, [BaseEnv EXCEPT !.idmap = i])
    \/ \E t \in DOMAIN tasks : \E i \in MapHostIds :
           ChildRun(t, [BaseChildEnv EXCEPT !.retid = i])
    \/ \E t \in DOMAIN tasks : GetResult(t)
    \/ \E t \in DOMAIN tasks : Respond(t, "full")

SpecMap == Init /\ [][NextMap]_vars

\* The entry a lookup by namespace id (by host id) stops at: the first in
\* list order whose range holds the id.
FirstNs(map, id) ==
    CHOOSE i \in DOMAIN map :
        Covers(map[i], id) /\ \A j \in 1..(i - 1) : ~Covers(map[j], id)

FirstHost(map, id) ==
    CHOOSE i \in DOMAIN map :
        HostCovers(map[i], id) /\ \A j \in 1..(i - 1) : ~HostCovers(map[j], id)

NoId == [some |-> FALSE, v |-> U64(0)]

\* namespace id to host id: host_start + (id - ns_start)
NsToHost(map, id) ==
    IF Covered(map, id)
    THEN [some |-> TRUE,
          v |-> Add64(map[FirstNs(map, id)].host, Sub64(id, map[FirstNs(map, id)].ns))]
    ELSE NoId

\* host id to namespace id: ns_start + (id - host_start)
HostToNs(map, id) ==
    IF HostCovered(map, id)
    THEN [some |-> TRUE,
          v |-> Add64(map[FirstHost(map, id)].ns, Sub64(id, map[FirstHost(map, id)].host))]
    ELSE NoId

\* The lookups the handlers made: uid_gid_arg calls map_from with the id of
\* the request, q_getnextquota's child calls map_into with the id the
\* kernel returned.
FromCalls ==
    {<<tasks[t].env.idmap, tasks[t].buf.seccomp_notif.args[3]>> :
        t \in {u \in DOMAIN tasks : /\ tasks[u].handler = "Quotactl"
                                    /\ QuotaIdRequest(tasks[u].buf.seccomp_notif)
                                    /\ FitsI32(tasks[u].buf.seccomp_notif.args[3])}}

IntoCalls ==
    {<<tasks[t].child.closure.idmap, U64(tasks[t].child.cenv.retid)>> :
        t \in {u \in DOMAIN tasks : /\ tasks[u].child.state \in {"exited", "reaped"}
                                    /\ tasks[u].child.closure.out = "nextdqblk"
                                    /\ tasks[u].child.closure.mapid}}

\* C27 as stated: map_from looks the id up in the host ranges and yields the
\* namespace id, map_into looks it up in the namespace ranges and yields
\* the host id; none exactly when no entry matches.
C27_FromIsHostToNs ==
    /\ \A call \in FromCalls : map_from(call[1], call[2]) = HostToNs(call[1], call[2])
    /\ \A call \in IntoCalls : map_into(call[1], call[2]) = NsToHost(call[1], call[2])

\* C27, the directions exchanged: map_from translates a namespace id to the
\* host id, host_start + (id - ns_start) for the first entry whose
\* namespace range contains id; map_into translates a host id to the
\* namespace id, ns_start + (id - host_start) for the first entry whose
\* host range contains id; each is none exactly when no entry matches.  The
\* forked closure carries the host id, the child writes the namespace id.
C27_FromIsNsToHost ==
    /\ \A call \in FromCalls : map_from(call[1], call[2]) = NsToHost(call[1], call[2])
    /\ \A call \in IntoCalls : map_into(call[1], call[2]) = HostToNs(call[1], call[2])
    /\ \A t \in DOMAIN tasks :
          LET ch == tasks[t].child
          IN  /\ ch.state # "none" /\ ch.closure.sys = "quotactl"
                 /\ QuotaIdRequest(tasks[t].buf.seccomp_notif)
                 => AsU32(ch.closure.id)
                       = NsToHost(tasks[t].env.idmap, tasks[t].buf.seccomp_notif.args[3]).v
              /\ ch.state \in {"exited", "reaped"} /\ ch.wrote.done
                 /\ ch.closure.out = "nextdqblk" /\ ch.closure.mapid
                 => ch.wrote.dqb_id = HostToNs(ch.closure.idmap, U64(ch.cenv.retid)).v

\* map_from(5) under (0, 1000, 5), (5, 2000, 10) went through the second
\* entry: the closure carries host id 2000
C27_WitnessFrom ==
    \E t \in DOMAIN tasks :
        /\ <<tasks[t].env.idmap, U64(5)>> \in FromCalls
        /\ tasks[t].env.idmap = << IdMapEntry(0, 1000, 5), IdMapEntry(5, 2000, 10) >>
        /\ tasks[t].buf.seccomp_notif.args[3] = U64(5)
        /\ tasks[t].child.state # "none"
        /\ tasks[t].child.closure.id = 2000

\* map_into(2009) under the same map: the child wrote namespace id 14
C27_WitnessInto ==
    \E t \in DOMAIN tasks :
        /\ tasks[t].child.closure.idmap = << IdMapEntry(0, 1000, 5), IdMapEntry(5, 2000, 10) >>
        /\ <<tasks[t].child.closure.idmap, U64(2009)>> \in IntoCalls
        /\ tasks[t].child.cenv.retid = 2009
        /\ tasks[t].child.wrote = [done |-> TRUE, dqb_id |-> U64(14)]

\* no entry matches: map_from(65536) under (0, 100000, 65536) is none and
\* the request is answered -ERANGE
C27_WitnessNone ==
    \E e \in Replies :
        /\ QuotaIdRequest(e.notif) /\ e.notif.args[3] = U64(65536)
        /\ tasks[e.seq].env.idmap = << IdMapEntry(0, 100000, 65536) >>
        /\ ~map_from(tasks[e.seq].env.idmap, U64(65536)).some
        /\ ~e.forked /\ e.resp.error = -ERANGE

\* ---------------------------------------------------------------- C26
Some(id) == [some |-> TRUE, v |-> id]

\* the lookups of a state whose id lies in an entry's host range, and those
\* whose id lies in an entry's namespace range
HostSide == {call \in IntoCalls : HostCovered(call[1], call[2])}

NsSide == {call \in FromCalls : Covered(call[1], call[2])}

C26_WitnessNs ==
    \E t \in DOMAIN tasks :
        /\ <<tasks[t].env.idmap, U64(65535)>> \in NsSide
        /\ tasks[t].env.idmap = << IdMapEntry(0, 100000, 65536) >>
        /\ tasks[t].child.state # "none"
        /\ tasks[t].child.closure.id = 165535
        /\ map_into(tasks[t].env.idmap, U64(165535)) = Some(U64(65535))

\* ---------------------------------------------------------------- C28
\* The securebits the daemon was started with: none, bits without and with
\* their locks, the two bits of the step already set and locked, and a
\* lock on a clear KEEP_CAPS (the kernel refuses to set the bit).
SecureBitSets ==
    { {}, {"NOROOT"}, {"NOROOT", "NOROOT_LOCKED"}, {"KEEP_CAPS"},
      {"NO_CAP_AMBIENT_RAISE", "NO_CAP_AMBIENT_RAISE_LOCKED", "NO_SETUID_FIXUP"},
      {"KEEP_CAPS", "KEEP_CAPS_LOCKED", "NO_SETUID_FIXUP", "NO_SETUID_FIXUP_LOCKED"},
      {"KEEP_CAPS_LOCKED"} }

InitBits ==
    /\ conn = [c \in Conns |-> [main |-> "none", shut |-> FALSE, peer |-> "open",
                                arcs |-> 0, uac |-> FALSE]]
    /\ tasks = << >>
    /\ sent = [c \in Conns |-> << >>]
    /\ lastRecv = [c \in Conns |-> NoRecv]
    /\ daemonCtx \in {[DaemonCtx0 EXCEPT !.securebits = b] : b \in SecureBitSets}
    /\ fdstate = NoWrappers
    /\ ring = Ring_new
    /\ daemon = Listening

NextBits ==
    \/ Accept(1)
    \/ \E n \in {GoodNotif(NotifId(1)),
                  NQuotactl(NotifId(1), QCmd(Q_SYNC, USRQUOTA), PathPtr, U64(0), U64(0))} :
           Len(tasks) = 0 /\ Recv(1, Msg(GoodHdr, n))
    \/ RecvEof(1)
    \/ \E t \in DOMAIN tasks : TaskRun(t, BaseEnv)
    \/ \E t \in DOMAIN tasks : \E n \in 0..MaxSteps :
           ChildRun(t, [BaseChildEnv EXCEPT !.failAt = n])
    \/ \E t \in DOMAIN tasks : GetResult(t)
    \/ \E t \in DOMAIN tasks : Respond(t, "full")

SpecBits == InitBits /\ [][NextBits]_vars

\* the securebits call of the child succeeded: it was issued and another
\* call followed it
SecurebitsApplied(ch) ==
    /\ ch.state \in {"exited", "reaped"}
    /\ \E i \in DOMAIN ch.ops : ch.ops[i] = "securebits" /\ i < Len(ch.ops)

\* C28: after the securebits step of a child succeeded, the child's
\* securebits contain KEEP_CAPS and NO_SETUID_FIXUP and every bit the
\* process had before the step, which are those the daemon runs with.
C28_SecureBitsKept ==
    \A t \in DOMAIN tasks :
        SecurebitsApplied(tasks[t].child) =>
            /\ {"KEEP_CAPS", "NO_SETUID_FIXUP"} \subseteq tasks[t].child.ctx.securebits
            /\ daemonCtx.securebits \subseteq tasks[t].child.ctx.securebits

\* a daemon running with NOROOT and its lock: the child has them and the
\* two bits of the step
C28_Witness ==
    \E t \in DOMAIN tasks :
        /\ SecurebitsApplied(tasks[t].child)
        /\ daemonCtx.securebits = {"NOROOT", "NOROOT_LOCKED"}
        /\ tasks[t].child.ctx.securebits
              = {"NOROOT", "NOROOT_LOCKED", "KEEP_CAPS", "NO_SETUID_FIXUP"}

\* KEEP_CAPS locked while clear: the step is refused, the bits stay and
\* the child goes no further
C28_WitnessRefused ==
    \E t \in DOMAIN tasks :
        /\ tasks[t].child.state \in {"exited", "reaped"}
        /\ daemonCtx.securebits = {"KEEP_CAPS_LOCKED"}
        /\ tasks[t].child.cenv.failAt = 0
        /\ tasks[t].child.ops[Len(tasks[t].child.ops)] = "securebits"
        /\ tasks[t].child.ctx.securebits = {"KEEP_CAPS_LOCKED"}

\* ---------------------------------------------------------------- C29
\* C29: whatever recv returned, every fd its recvmsg delivered is owned by
\* the buffer or closed.
C29_NoFdLeak ==
    \A c \in Conns : \A i \in DOMAIN lastRecv[c].fds :
        lastRecv[c].fds[i] \in {"owned", "closed"}

\* What holds of the code: no fd leaks once set_len has accepted the
\* message, and a message recv accepted leaves its fds with the buffer.
C29_NoFdLeakOnceValidated ==
    \A c \in Conns :
        LET r == lastRecv[c]
            b == recvmsg_vectored(NewBuffer, Msg(r.hdr, ZeroNotif))
        IN  /\ r.hdr.len # 0 /\ set_len(b, r.hdr.len).ok
               => \A i \in DOMAIN r.fds : r.fds[i] \in {"owned", "closed"}
            /\ r.res = "ok" => \A i \in DOMAIN r.fds : r.fds[i] = "owned"

\* a message with reserved0 = 1 and two fds was refused, the fds left open
C29_WitnessLeak ==
    \E c \in Conns :
        /\ lastRecv[c].res = "err"
        /\ lastRecv[c].hdr.reserved0 = 1
        /\ lastRecv[c].fds = <<"leaked", "leaked">>

\* a message with one fd was refused and the fd closed
C29_WitnessClosed ==
    \E c \in Conns :
        /\ lastRecv[c].res = "err"
        /\ lastRecv[c].fds = <<"closed">>

\* ---------------------------------------------------------------- C30
\* the socket of an accepted connection has been dropped, its fd closed
Closed(c) == conn[c].main # "none" /\ conn[c].arcs = 0

C30_WitnessClosed ==
    \E c \in Conns : \E t, u \in TasksOf(c) :
        /\ t # u /\ tasks[t].pc = "dropped" /\ tasks[u].pc = "dropped"
        /\ tasks[u].st # NoStatus
        /\ conn[c].main = "eof" /\ Closed(c)

\* ---------------------------------------------------------------- C31
\* a buffer that still holds the fds and the cookie length of an earlier
\* message
HeldBuffer ==
    [NewBuffer EXCEPT !.pid_fd = "pidfd_old", !.mem_fd = "memfd_old",
                      !.proxy_msg.cookie_len = 4, !.cookie_buf_len = 4]

NoFds(buf) == buf.pid_fd = None /\ buf.mem_fd = None

\* recv on HeldBuffer with the envelope of the connection's last message
RecvAgain(c) == recv(HeldBuffer, Msg(lastRecv[c].hdr, ZeroNotif))

\* C31: a buffer holds no fds or the pidfd and mem-fd delivered with the
\* message it was last filled with; a recv on a buffer that holds fds
\* drops them and the cookie length, and leaves the buffer without fds
\* when it hits EOF or fails.
C31_HoldsDeliveredOrNone ==
    /\ \A t \in DOMAIN tasks :
          \/ NoFds(tasks[t].buf)
          \/ tasks[t].buf.pid_fd = "pidfd" /\ tasks[t].buf.mem_fd = "memfd"
    /\ \A c \in Conns :
          lastRecv[c].n > 0 =>
              /\ RecvAgain(c).res # "ok" => NoFds(RecvAgain(c).buf)
              /\ RecvAgain(c).res = "ok" =>
                    RecvAgain(c).buf.pid_fd = "pidfd" /\ RecvAgain(c).buf.mem_fd = "memfd"
              /\ lastRecv[c].hdr.len < ProxyMsgSize => RecvAgain(c).buf.proxy_msg.cookie_len = 0

\* What holds of the code: the same with "the two numbers read from the
\* control message" for "the fds delivered", which are the delivered fds
\* when the control message is SCM_RIGHTS.
C31_HoldsReadOrNone ==
    /\ \A t \in DOMAIN tasks :
          \/ NoFds(tasks[t].buf)
          \/ tasks[t].buf.pid_fd \in {"pidfd", "data"} /\ tasks[t].buf.mem_fd \in {"memfd", "data"}
    /\ \A c \in Conns :
          lastRecv[c].n > 0 =>
              /\ RecvAgain(c).res # "ok" => NoFds(RecvAgain(c).buf)
              /\ RecvAgain(c).res = "ok" =>
                    /\ RecvAgain(c).buf.pid_fd \in {"pidfd", "data"}
                    /\ RecvAgain(c).buf.mem_fd \in {"memfd", "data"}
                    /\ fds_delivered(lastRecv[c].hdr.cmsg) = 2
                          => RecvAgain(c).buf.pid_fd = "pidfd" /\ RecvAgain(c).buf.mem_fd = "memfd"
              /\ lastRecv[c].hdr.len < ProxyMsgSize => RecvAgain(c).buf.proxy_msg.cookie_len = 0

\* a message with an SCM_CREDENTIALS control message was accepted: the
\* task's buffer holds two numbers that are no delivered fds
C31_WitnessData ==
    \E t \in DOMAIN tasks :
        /\ tasks[t].buf.pid_fd = "data" /\ tasks[t].buf.mem_fd = "data"
        /\ lastRecv[tasks[t].conn].hdr.cmsg.cmsg_type = SCM_CREDENTIALS

\* a failed recv on a buffer holding fds leaves it without
C31_WitnessReset ==
    \E c \in Conns :
        /\ lastRecv[c].res = "err" /\ lastRecv[c].hdr.reserved0 = 1
        /\ RecvAgain(c).res = "err" /\ NoFds(RecvAgain(c).buf)

\* ---------------------------------------------------------------- C32
\* the receive loop of c has ended and no task of c is left
AllEnded(c) == conn[c].main \notin {"none", "recv"} /\ \A t \in TasksOf(c) : ~InFlight(t)

\* C32: a read of 0 bytes ends the receive loop without a handler task, a
\* reply or a shutdown for it; the loop ends in no other way than by such a
\* read or by an error of recv, which is fatal; and the socket is closed
\* when the loop and every task of the connection have ended.
C32_EofEndsCleanly ==
    [][\A c \in Conns :
          /\ lastRecv'[c].n # lastRecv[c].n /\ lastRecv'[c].res = "eof" =>
                /\ conn'[c].main = "eof"
                /\ tasks' = tasks
                /\ sent' = sent
                /\ conn'[c].shut = conn[c].shut
          /\ conn[c].main = "recv" /\ conn'[c].main # "recv" =>
                /\ lastRecv'[c].n # lastRecv[c].n
                /\ \/ lastRecv'[c].res = "eof" /\ conn'[c].main = "eof"
                   \/ lastRecv'[c].res = "err" /\ conn'[c].main = "failed" /\ conn'[c].shut
          /\ AllEnded(c)' => Closed(c)']_vars

\* the peer of a connection closed after one answered request: the loop
\* has ended, the socket was not shut down and is closed
C32_Witness ==
    \E c \in Conns :
        /\ conn[c].main = "eof" /\ lastRecv[c].res = "eof"
        /\ conn[c].peer = "closed" /\ ~conn[c].shut
        /\ \E e \in Replies : tasks[e.seq].conn = c
        /\ AllEnded(c) /\ Closed(c)

\* the loop has ended on EOF while a task of the connection still runs: the
\* socket stays open for it
C32_WitnessOpen ==
    \E c \in Conns : \E t \in TasksOf(c) :
        /\ conn[c].main = "eof" /\ ~conn[c].shut
        /\ InFlight(t) /\ ~Closed(c)

\* ---------------------------------------------------------------- C33
\* the calls the child of task t is to make before the forwarded syscall
StepsOf(t) == closure_steps(tasks[t].child.closure, daemonCtx)

\* the child of t ran its closure and the kernel refused a call of it
\* before the forwarded syscall
ApplyFailed(t) ==
    LET ch == tasks[t].child
    IN  /\ ch.state \in {"exited", "reaped"}
        /\ ch.cenv.fate \in {"run", "writefail", "killed_after_write"}
        /\ ch.cenv.failAt \in 1..Len(StepsOf(t))
        /\ StepsOf(t)[ch.cenv.failAt].fallible

\* C33: when a call of UserCaps::apply fails in the child, the calls after
\* it are not made, the forwarded syscall is not made, nothing is written
\* to the caller's memory, the record the child writes is a failure, and a
\* reply to the request is val = -1 with a negative error.
C33_ApplyFailureStops ==
    /\ \A t \in DOMAIN tasks :
          LET ch == tasks[t].child
          IN  ApplyFailed(t) =>
                /\ ch.ops = [i \in 1..ch.cenv.failAt |-> StepsOf(t)[i].name]
                /\ \A i \in DOMAIN ch.ops : ch.ops[i] \notin {"mknodat", "quotactl"}
                /\ ~ch.wrote.done
                /\ ch.res.kind = "fail"
                /\ ch.rec.present => ch.rec.failure # 0
    /\ \A e \in Sent :
          ApplyFailed(e.seq) =>
              /\ e.resp.val = -1 /\ e.resp.error < 0
              /\ e.resp.error = -tasks[e.seq].child.rec.failure

\* setns failed with EPERM in the child of a mknod request: the calls up to
\* setns were made, the reply is error = -EPERM
C33_Witness ==
    \E e \in Replies :
        /\ ApplyFailed(e.seq)
        /\ e.handler = "Mknod"
        /\ tasks[e.seq].child.ops[Len(tasks[e.seq].child.ops)] = "setns_mnt"
        /\ tasks[e.seq].child.cenv.failErrno = EPERM
        /\ e.resp.val = -1 /\ e.resp.error = -EPERM

\* capset, the last call of apply, failed without an errno in the child of
\* a quotactl request: the reply is error = -EFAULT
C33_WitnessLast ==
    \E e \in Replies :
        /\ ApplyFailed(e.seq)
        /\ e.handler = "Quotactl"
        /\ tasks[e.seq].child.ops[Len(tasks[e.seq].child.ops)] = "capset"
        /\ tasks[e.seq].child.cenv.failErrno = 0
        /\ e.resp.error = -EFAULT

\* ---------------------------------------------------------------- C34
\* the child of t ran the closure of an "out" subcommand to its end
OutRan(t) ==
    /\ tasks[t].child.state \in {"exited", "reaped"}
    /\ tasks[t].child.closure.out \in {"dqblk", "nextdqblk", "dqinfo", "fmt"}
    /\ tasks[t].child.cenv.fate \in {"run", "writefail", "killed_after_write"}

\* the child reached mem_write_struct: apply and quotactl succeeded and the
\* returned id, where it is mapped, is covered
WriteAttempted(t) ==
    LET ch == tasks[t].child
    IN  /\ OutRan(t)
        /\ ch.ops # << >> /\ ch.ops[Len(ch.ops)] = "quotactl"
        /\ ch.cenv.sysres = 0
        /\ ch.closure.out = "nextdqblk" /\ ch.closure.mapid
              => HostCovered(ch.closure.idmap, U64(ch.cenv.retid))

\* C34: for the "out" subcommands the caller's memory is written only
\* after quotactl succeeded in the child, a reply val = 0 is sent only when
\* the whole struct was written, a failed quotactl leaves the memory
\* alone, and a short write is answered with an error.
C34_WriteBackThenSuccess ==
    /\ \A t \in DOMAIN tasks :
          LET ch == tasks[t].child
          IN  OutRan(t) =>
                /\ ch.wrote.done => WriteAttempted(t) /\ ch.cenv.memw = "ok"
                /\ ch.cenv.sysres # 0 => ~ch.wrote.done
    /\ \A e \in Sent :
          LET ch == tasks[e.seq].child
          IN  OutRan(e.seq) =>
                /\ e.resp.error = 0 => e.resp.val = 0 /\ ch.wrote.done
                /\ WriteAttempted(e.seq) /\ ch.cenv.memw = "short"
                      => e.resp.val = -1 /\ e.resp.error = -EINVAL
                /\ ch.cenv.sysres # 0 /\ ch.ops[Len(ch.ops)] = "quotactl"
                      => e.resp.val = -1 /\ e.resp.error = -ch.cenv.sysres

\* Q_GETINFO succeeded and the struct was written: val = 0
C34_Witness ==
    \E e \in Replies :
        /\ OutRan(e.seq) /\ tasks[e.seq].child.closure.out = "dqinfo"
        /\ tasks[e.seq].child.wrote.done
        /\ e.resp.val = 0 /\ e.resp.error = 0

\* a short write after a successful Q_GETQUOTA: error = -EINVAL
C34_WitnessShort ==
    \E e \in Replies :
        /\ WriteAttempted(e.seq) /\ tasks[e.seq].child.closure.out = "dqblk"
        /\ tasks[e.seq].child.cenv.memw = "short"
        /\ ~tasks[e.seq].child.wrote.done
        /\ e.resp.val = -1 /\ e.resp.error = -EINVAL

\* quotactl failed with ENOENT: nothing written, error = -ENOENT
C34_WitnessFailed ==
    \E e \in Replies :
        /\ OutRan(e.seq) /\ tasks[e.seq].child.cenv.sysres = ENOENT
        /\ tasks[e.seq].child.ops[Len(tasks[e.seq].child.ops)] = "quotactl"
        /\ ~tasks[e.seq].child.wrote.done
        /\ e.resp.error = -ENOENT

\* ---------------------------------------------------------------- C35
KnownSubCmds == {Q_QUOTAON, Q_QUOTAOFF, Q_GETQUOTA, Q_SETQUOTA, Q_GETNEXTQUOTA,
                 Q_GETINFO, Q_SETINFO, Q_GETFMT, Q_SYNC}

\* a quotactl request whose subcommand is none of the nine
UnknownSubCmd(n) == TableHandler(n) = "Quotactl" /\ SubCmdOf(n) \notin KnownSubCmds

\* the quotactl requests the handler has looked at, with what it met
Handled == {t \in DOMAIN tasks : tasks[t].handler = "Quotactl" /\ tasks[t].pc # "spawned"}

\* special is NULL or a string the daemon can read
SpecialReadable(n, env) == n.args[2] = U64(0) \/ env.mem = "ok"

\* C35 as stated: every reply to a request with an unknown subcommand is
\* val = -1, error = -EOPNOTSUPP, and no child is forked for it, whatever its
\* other arguments.
C35_UnknownIsEopnotsupp ==
    /\ \A e \in Sent :
          UnknownSubCmd(e.notif) =>
              ~e.forked /\ e.resp.val = -1 /\ e.resp.error = -EOPNOTSUPP
    /\ \A t \in Handled :
          UnknownSubCmd(tasks[t].buf.seccomp_notif) => tasks[t].child.state = "none"

\* C35 with the two reads that come before the dispatch: a request with an
\* unknown subcommand whose cmd fits 32 bits and whose special is NULL or
\* readable is answered val = -1, error = -EOPNOTSUPP, whatever the kind
\* byte, id and addr; a cmd beyond 32 bits is answered -EINVAL and an
\* unreadable special with the error of the read; no child is forked.
C35_UnknownAfterCmdAndSpecial ==
    /\ \A e \in Sent :
          LET env == tasks[e.seq].env
          IN  UnknownSubCmd(e.notif) =>
                /\ ~e.forked /\ e.resp.val = -1
                /\ e.resp.error =
                      IF ~FitsU32(e.notif.args[1]) THEN -EINVAL
                      ELSE IF SpecialReadable(e.notif, env) THEN -EOPNOTSUPP
                      ELSE IF env.mem = "eio" THEN -EFAULT ELSE -EINVAL
    /\ \A t \in Handled :
          LET n == tasks[t].buf.seccomp_notif
          IN  UnknownSubCmd(n) =>
                /\ tasks[t].child.state = "none"
                /\ FitsU32(n.args[1]) /\ SpecialReadable(n, tasks[t].env)
                      => tasks[t].st = StErr(EOPNOTSUPP)

\* subcommand Q_GETNEXTQUOTA + 1 with kind 2 and a readable special:
\* -EOPNOTSUPP
C35_Witness ==
    \E e \in Replies :
        /\ UnknownSubCmd(e.notif) /\ SubCmdOf(e.notif) = Q_GETNEXTQUOTA + 1
        /\ e.notif.args[1][1] % 256 = 2
        /\ e.notif.args[2] # U64(0)
        /\ ~e.forked /\ e.resp.error = -EOPNOTSUPP

\* the same subcommand with a special that cannot be read: -EFAULT
C35_WitnessUnreadable ==
    \E e \in Replies :
        /\ UnknownSubCmd(e.notif) /\ FitsU32(e.notif.args[1])
        /\ tasks[e.seq].env.mem = "eio"
        /\ e.resp.error = -EFAULT

\* a cmd with bit 32 set: -EINVAL
C35_WitnessWide ==
    \E e \in Replies :
        /\ UnknownSubCmd(e.notif) /\ ~FitsU32(e.notif.args[1])
        /\ e.resp.error = -EINVAL

\* ---------------------------------------------------------------- C36
\* the subcommands whose handler hands a NULL special on to quotactl
NullPassed == {Q_QUOTAON, Q_QUOTAOFF, Q_GETINFO, Q_GETFMT}

\* the subcommands with an id that may be translated
NullWithId == {Q_GETQUOTA, Q_SETQUOTA, Q_GETNEXTQUOTA}

\* a quotactl request of one of the subcommands subs whose special is NULL
NullSpecial(n, subs) ==
    /\ TableHandler(n) = "Quotactl"
    /\ SubCmdOf(n) \in subs
    /\ n.args[2] = U64(0)

\* nothing but the NULL keeps the request n from being forked: the same
\* request with a readable special is forked
ForkedWithSpecial(n, env) ==
    handle_syscall([NewBuffer EXCEPT !.seccomp_notif = [n EXCEPT !.args[2] = PathPtr]],
                   env).k = "fork"

\* the request of task t, once its handler looked at it
NotifOf(t) == tasks[t].buf.seccomp_notif

\* the request of t was forked with a NULL special, and its child, where
\* it went as far as the forwarded call, made that call
ForkedWithNull(t) ==
    LET ch == tasks[t].child
    IN  /\ ch.state # "none"
        /\ ch.closure.sys = "quotactl" /\ ch.closure.special = U64(0)
        /\ ch.state \in {"exited", "reaped"} /\ ch.cenv.fate = "run" /\ ch.cenv.failAt = 0
              => ch.ops # << >> /\ ch.ops[Len(ch.ops)] = "quotactl"

\* the reply e is what the kernel answered the child's quotactl call
KernelResult(e) ==
    LET ch == tasks[e.seq].child
    IN  /\ e.forked
        /\ ch.cenv.fate = "run" /\ ch.cenv.failAt = 0 =>
              /\ ch.cenv.sysres # 0 => e.resp.val = -1 /\ e.resp.error = -ch.cenv.sysres
              /\ ch.cenv.sysres = 0 /\ ch.cenv.memw = "ok"
                    => e.resp.val = 0 /\ e.resp.error = 0

\* C36 as stated: for all seven subcommands a NULL special is not
\* rejected; the request is forked, quotactl is called with a NULL special
\* and the reply is the kernel's result.
C36_NullSpecialForwarded ==
    /\ \A t \in Handled :
          /\ NullSpecial(NotifOf(t), NullPassed \cup NullWithId)
          /\ ForkedWithSpecial(NotifOf(t), tasks[t].env)
          => ForkedWithNull(t)
    /\ \A e \in Sent :
          /\ NullSpecial(e.notif, NullPassed \cup NullWithId)
          /\ ForkedWithSpecial(e.notif, tasks[e.seq].env)
          => ForkedWithNull(e.seq) /\ KernelResult(e)

\* C36 for the handlers as they are: Q_QUOTAON, Q_QUOTAOFF, Q_GETINFO and
\* Q_GETFMT forward a NULL special to quotactl and reply the kernel's
\* result; Q_GETQUOTA, Q_SETQUOTA and Q_GETNEXTQUOTA answer a NULL special
\* val = -1, error = -EINVAL without a fork and before the id is read.
C36_NullSpecialByHandler ==
    /\ \A t \in Handled :
          /\ NullSpecial(NotifOf(t), NullPassed) /\ ForkedWithSpecial(NotifOf(t), tasks[t].env)
                => ForkedWithNull(t)
          /\ NullSpecial(NotifOf(t), NullWithId) /\ FitsU32(NotifOf(t).args[1])
                => tasks[t].child.state = "none" /\ tasks[t].st = StErr(EINVAL)
    /\ \A e \in Sent :
          /\ NullSpecial(e.notif, NullPassed) /\ ForkedWithSpecial(e.notif, tasks[e.seq].env)
                => ForkedWithNull(e.seq) /\ KernelResult(e)
          /\ NullSpecial(e.notif, NullWithId) /\ FitsU32(e.notif.args[1])
                => ~e.forked /\ e.resp.val = -1 /\ e.resp.error = -EINVAL

\* Q_GETINFO with a NULL special: forked, and the kernel's ENOENT replied
C36_Witness ==
    \E e \in Replies :
        /\ NullSpecial(e.notif, {Q_GETINFO}) /\ ForkedWithNull(e.seq)
        /\ tasks[e.seq].child.cenv.sysres = ENOENT
        /\ e.forked /\ e.resp.error = -ENOENT

\* Q_QUOTAOFF with a NULL special: forked, the call succeeded, val = 0
C36_WitnessOff ==
    \E e \in Replies :
        /\ NullSpecial(e.notif, {Q_QUOTAOFF}) /\ ForkedWithNull(e.seq)
        /\ tasks[e.seq].child.ops # << >>
        /\ e.forked /\ e.resp.val = 0 /\ e.resp.error = 0

\* Q_GETQUOTA with a NULL special and everything else in order: -EINVAL,
\* no child
C36_WitnessRejected ==
    \E e \in Replies :
        /\ NullSpecial(e.notif, {Q_GETQUOTA})
        /\ ForkedWithSpecial(e.notif, tasks[e.seq].env)
        /\ ~e.forked /\ e.resp.error = -EINVAL

\* ---------------------------------------------------------------- C37
\* the argument of the request n that the handler reads as a mode_t
ModeArg(n) == n.args[IF TableHandler(n) = "Mknod" THEN 2 ELSE 3]

\* quotactl requests whose arg 2 is read with arg_int and handed to the
\* kernel as it was read
IdRead(n) ==
    /\ TableHandler(n) = "Quotactl"
    /\ \/ SubCmdOf(n) \in {Q_GETINFO, Q_SETINFO, Q_GETFMT, Q_QUOTAON, Q_QUOTAOFF}
       \/ /\ SubCmdOf(n) \in {Q_GETQUOTA, Q_SETQUOTA, Q_GETNEXTQUOTA}
          /\ n.args[1][1] % 256 \notin {USRQUOTA, GRPQUOTA}

\* the c_int v is the number the argument a holds
SameNumber(v, a) == v >= 0 /\ <<v % Limb, v \div Limb, 0, 0>> = a

\* the c_int v has the low 32 bits of the argument a
SameBits(v, a) == <<v % Limb, (v \div Limb) % Limb, 0, 0>> = a

\* C37 as stated: a mode, cmd or id argument that its target type cannot
\* hold is answered -EINVAL without a fork, and a forwarded call carries the
\* number the argument held.
C37_RangeChecked ==
    \A e \in Sent :
        LET cl == tasks[e.seq].child.closure
        IN  /\ TableHandler(e.notif) \in {"Mknod", "MknodAt"} =>
                /\ ~FitsU32(ModeArg(e.notif)) => ~e.forked /\ e.resp.error = -EINVAL
                /\ e.forked => cl.mode = ModeArg(e.notif)
            /\ TableHandler(e.notif) = "Quotactl" =>
                /\ ~FitsI32(e.notif.args[1]) => ~e.forked /\ e.resp.error = -EINVAL
                /\ e.forked => SameNumber(cl.cmd, e.notif.args[1])
            /\ IdRead(e.notif) =>
                /\ ~FitsI32(e.notif.args[3]) => ~e.forked
                /\ e.forked => SameNumber(cl.id, e.notif.args[3])

\* what the helpers do check: arguments beyond 32 bits are answered
\* -EINVAL, a mode is forwarded unchanged, and cmd and id are forwarded
\* with the low 32 bits of the argument
C37_RangeCheckedAsUnsigned ==
    \A e \in Sent :
        LET cl == tasks[e.seq].child.closure
        IN  /\ TableHandler(e.notif) \in {"Mknod", "MknodAt"} =>
                /\ ~FitsU32(ModeArg(e.notif)) => ~e.forked /\ e.resp.error = -EINVAL
                /\ e.forked => cl.mode = ModeArg(e.notif)
            /\ TableHandler(e.notif) = "Quotactl" =>
                /\ ~FitsU32(e.notif.args[1]) => ~e.forked /\ e.resp.error = -EINVAL
                /\ e.forked => SameBits(cl.cmd, e.notif.args[1])
            /\ IdRead(e.notif) =>
                /\ ~FitsU32(e.notif.args[3]) => ~e.forked
                /\ e.forked => SameBits(cl.id, e.notif.args[3])

\* id 2^32 - 1 of a project quota: forwarded to quotactl as -1
C37_WitnessWrapped ==
    \E e \in Replies :
        /\ IdRead(e.notif) /\ e.notif.args[3] = <<65535, 65535, 0, 0>>
        /\ e.forked /\ tasks[e.seq].child.closure.id = -1
        /\ tasks[e.seq].child.ops # << >>

\* a mode with bit 32 set: -EINVAL
C37_WitnessMode ==
    \E e \in Replies :
        /\ TableHandler(e.notif) = "Mknod" /\ ~FitsU32(ModeArg(e.notif))
        /\ ~e.forked /\ e.resp.error = -EINVAL

\* ---------------------------------------------------------------- C38
\* The kernel hands out a descriptor (open, openat, pipe, accept, an fd
\* of an SCM_RIGHTS message): the lowest free number, naming a new file.
FdOpen ==
    /\ fdstate.files < MaxWrappers
    /\ \E n \in FdNums :
          /\ fdstate.table[n] = 0 /\ \A m \in FdNums : fdstate.table[m] = 0 => n <= m
          /\ fdstate' = [fdstate EXCEPT !.table[n] = fdstate.files + 1,
                                        !.files = @ + 1, !.raw = @ \cup {n}]
    /\ UNCHANGED <<conn, tasks, sent, lastRecv, daemonCtx, daemon, ring>>

\* A number the program holds is wrapped.
FromRawFd(n) ==
    /\ Len(fdstate.w) < MaxWrappers
    /\ n \in fdstate.raw
    /\ fdstate' = from_raw_fd(fdstate, n)
    /\ UNCHANGED <<conn, tasks, sent, lastRecv, daemonCtx, daemon, ring>>

\* ProxyMessageBuffer::recv wraps each four bytes of the control message's
\* data; for a control message that is not SCM_RIGHTS and passes the
\* level/type test these are numbers the sender chose.
RecvWrap(n) ==
    /\ Len(fdstate.w) < MaxWrappers
    /\ fdstate' = [from_raw_fd(fdstate, n) EXCEPT !.raw = fdstate.raw,
                                                   !.w[Len(fdstate.w) + 1].held = FALSE]
    /\ UNCHANGED <<conn, tasks, sent, lastRecv, daemonCtx, daemon, ring>>

AsRawFd(i) ==
    /\ fdstate.w[i].state = "live"
    /\ fdstate.seen # as_raw_fd(fdstate, i)
    /\ fdstate' = [fdstate EXCEPT !.seen = as_raw_fd(fdstate, i)]
    /\ UNCHANGED <<conn, tasks, sent, lastRecv, daemonCtx, daemon, ring>>

IntoRawFd(i) ==
    /\ fdstate.w[i].state = "live"
    /\ fdstate' = into_raw_fd(fdstate, i)
    /\ UNCHANGED <<conn, tasks, sent, lastRecv, daemonCtx, daemon, ring>>

DropFd(i) ==
    /\ fdstate.w[i].state = "live"
    /\ fdstate' = [drop(fdstate, i) EXCEPT !.w[i].state = "dropped"]
    /\ UNCHANGED <<conn, tasks, sent, lastRecv, daemonCtx, daemon, ring>>

NextFd ==
    \/ FdOpen
    \/ \E n \in FdNums : FromRawFd(n)
    \/ \E n \in FdNums \cup {-1} : RecvWrap(n)
    \/ \E i \in DOMAIN fdstate.w : AsRawFd(i)
    \/ \E i \in DOMAIN fdstate.w : IntoRawFd(i)
    \/ \E i \in DOMAIN fdstate.w : DropFd(i)

SpecFd == Init /\ [][NextFd]_vars

\* the close calls wrapper i made
ClosesBy(i) == {k \in DOMAIN fdstate.closes : fdstate.closes[k].by = i}

\* wrapper i was dropped holding an fd >= 0
DroppedOwning(i) == fdstate.w[i].state = "dropped" /\ fdstate.w[i].v >= 0

\* the file the wrapper of close call k was made of had been closed by an
\* earlier close call of a wrapper
ClosedBefore(k) ==
    \E j \in 1 .. k - 1 :
        /\ fdstate.closes[j].file # 0
        /\ fdstate.closes[j].file = fdstate.w[fdstate.closes[k].by].own

\* C38: a wrapper dropped while it holds an fd >= 0 closes that fd exactly
\* once; a wrapper consumed by into_raw_fd holds a negative value and
\* closes nothing; no fd is closed twice by wrappers.
C38_ClosedExactlyOnce ==
    /\ \A i \in DOMAIN fdstate.w :
          /\ DroppedOwning(i) =>
                /\ Cardinality(ClosesBy(i)) = 1
                /\ \A k \in ClosesBy(i) : fdstate.closes[k].fd = fdstate.w[i].v
          /\ fdstate.w[i].state = "moved" => fdstate.w[i].v < 0 /\ ClosesBy(i) = {}
          /\ fdstate.w[i].state = "live" => ClosesBy(i) = {}
    /\ \A k \in DOMAIN fdstate.closes : ~ClosedBefore(k)

\* the same as long as every wrapper is made of a number the program held
\* as its own; then every close call also closes the file its wrapper was
\* made of
C38_ClosedOnceWhenOwned ==
    (\A i \in DOMAIN fdstate.w : fdstate.w[i].held) =>
        /\ C38_ClosedExactlyOnce
        /\ \A k \in DOMAIN fdstate.closes :
              /\ fdstate.closes[k].file # 0
              /\ fdstate.closes[k].file = fdstate.w[fdstate.closes[k].by].own

\* a wrapper was dropped and closed its fd, another was consumed by
\* into_raw_fd and closed nothing
C38_Witness ==
    \E i, j \in DOMAIN fdstate.w :
        /\ DroppedOwning(i) /\ Cardinality(ClosesBy(i)) = 1
        /\ fdstate.w[j].state = "moved" /\ fdstate.w[j].v = -EBADF /\ ClosesBy(j) = {}
        /\ \A k \in DOMAIN fdstate.closes : ~ClosedBefore(k)

\* two wrappers of one descriptor were dropped, one of them made by recv
\* of a number in a control message: the second close found the number
\* closed
C38_WitnessTwice ==
    \E k \in DOMAIN fdstate.closes :
        /\ ClosedBefore(k) /\ fdstate.closes[k].file = 0
        /\ \E i \in DOMAIN fdstate.w : ~fdstate.w[i].held /\ ClosesBy(i) # {}

\* ---------------------------------------------------------------- C39
\* [a, a + n) and [b, b + m) have no id in common
Apart(a, n, b, m) == Le64(Add64(a, n), b) \/ Le64(Add64(b, m), a)

\* the entries of map have pairwise disjoint namespace ranges and pairwise
\* disjoint host ranges
Disjoint(map) ==
    \A i, j \in DOMAIN map :
        i < j => /\ Apart(map[i].ns, map[i].range, map[j].ns, map[j].range)
                 /\ Apart(map[i].host, map[i].range, map[j].host, map[j].range)

\* C39: under a map with disjoint ranges, whenever map_from maps x to y,
\* map_into maps y back to x, and whenever map_into maps x to y, map_from
\* maps y back to x; an id one of them does not map is the image of no id
\* under the other.
C39_MutuallyInverse ==
    /\ \A call \in FromCalls :
          LET y == map_from(call[1], call[2])
          IN  Disjoint(call[1]) =>
                /\ y.some => map_into(call[1], y.v) = Some(call[2])
                /\ ~y.some => \A h \in MapHostIds :
                                 map_into(call[1], U64(h)) # Some(call[2])
    /\ \A call \in IntoCalls :
          LET y == map_into(call[1], call[2])
          IN  Disjoint(call[1]) =>
                /\ y.some => map_from(call[1], y.v) = Some(call[2])
                /\ ~y.some => \A n \in MapIds : map_from(call[1], n) # Some(call[2])

\* under the two entries (0, 1000, 5), (5, 2000, 10) the request's id 5 was
\* mapped to 2000 by the second entry, and 2000 maps back to 5
C39_Witness ==
    \E t \in DOMAIN tasks :
        LET m == tasks[t].env.idmap
        IN  /\ <<m, U64(5)>> \in FromCalls
            /\ Len(m) = 2 /\ Disjoint(m)
            /\ tasks[t].child.state # "none" /\ tasks[t].child.closure.id = 2000
            /\ map_into(m, U64(2000)) = Some(U64(5))

\* under the same map the kernel's id 1004 was written as 4, which maps
\* back to 1004; and 1005, which no entry holds, was not mapped
C39_WitnessInto ==
    \E t \in DOMAIN tasks :
        LET ch == tasks[t].child
        IN  /\ <<ch.closure.idmap, U64(ch.cenv.retid)>> \in IntoCalls
            /\ Len(ch.closure.idmap) = 2 /\ Disjoint(ch.closure.idmap)
            /\ ch.cenv.retid = 1004 /\ ch.wrote = [done |-> TRUE, dqb_id |-> U64(4)]
            /\ map_from(ch.closure.idmap, U64(4)) = Some(U64(1004))
            /\ ~map_into(ch.closure.idmap, U64(1005)).some

\* ---------------------------------------------------------------- C40
Others == <<conn, tasks, sent, lastRecv, daemonCtx, daemon, fdstate>>

\* try_push: the lock is taken (compare_and_swap succeeds only on a free
\* lock) and tail loaded; tail is written under this lock only.
PushLock(p) ==
    /\ ring.th[p].pc = "idle" /\ ring.next < MaxPush
    /\ ~ring.push_lock
    /\ ring' = [ring EXCEPT !.push_lock = TRUE, !.next = @ + 1,
                            !.th[p] = [Idle EXCEPT !.pc = "load_head", !.t = ring.tail,
                                                   !.x = ring.next + 1]]
    /\ UNCHANGED Others

\* the values a plain read of a counter can yield while another thread
\* stores to it: the latest one, or an earlier one not below what the reader
\* has depended on before (seen)
plain_read(seen, now) == (IF seen < 0 THEN 0 ELSE seen) .. now

\* head is read with a plain load and compared: a full ring ends the call
\* with false, the guard's drop releasing the lock
PushLoadHead(p) ==
    /\ ring.th[p].pc = "load_head"
    /\ \E head \in plain_read(ring.th[p].t - RingSize, ring.head) :
        ring' = IF ring.th[p].t - head = RingSize
                THEN [ring EXCEPT !.push_lock = FALSE,
                                  !.raced = @ \/ head # ring.head,
                                  !.th[p] = [@ EXCEPT !.pc = "idle", !.h = head,
                                                      !.res = "false",
                                                      !.stored = ring.tail - ring.head]]
                ELSE [ring EXCEPT !.raced = @ \/ head # ring.head,
                                  !.th[p] = [@ EXCEPT !.pc = "write", !.h = head]]
    /\ UNCHANGED Others

\* ptr::write into the slot
PushWrite(p) ==
    /\ ring.th[p].pc = "write"
    /\ ring' = [ring EXCEPT !.data[slot(ring, ring.th[p].t)] = ring.th[p].x,
                            !.th[p].pc = "store_tail"]
    /\ UNCHANGED Others

\* tail + 1 is stored, the call returns true and the lock is released
PushStoreTail(p) ==
    /\ ring.th[p].pc = "store_tail"
    /\ ring' = [ring EXCEPT !.tail = ring.th[p].t + 1,
                            !.pushed = Append(@, ring.th[p].x),
                            !.push_lock = FALSE,
                            !.th[p] = [@ EXCEPT !.pc = "idle", !.res = "true",
                                                !.stored = ring.th[p].t + 1 - ring.head]]
    /\ UNCHANGED Others

\* try_pop: the lock is taken and head loaded; head is written under this
\* lock only.
PopLock(q) ==
    /\ ring.th[q].pc = "idle"
    /\ ~ring.pop_lock
    /\ ring' = [ring EXCEPT !.pop_lock = TRUE,
                            !.th[q] = [Idle EXCEPT !.pc = "load_tail", !.h = ring.head]]
    /\ UNCHANGED Others

\* tail is read with a plain load that no acquire orders before the read of
\* the slot, while a pusher may be storing to tail: the read of the slot may
\* be performed first.
PopReadEarly(q) ==
    /\ ring.th[q].pc = "load_tail" /\ ~ring.th[q].early
    /\ ring' = [ring EXCEPT !.th[q] = [@ EXCEPT !.x = ring.data[slot(ring, ring.th[q].h)],
                                                !.early = TRUE],
                            !.raced = TRUE]
    /\ UNCHANGED Others

\* tail is read with a plain load and compared: an empty ring ends the
\* call with None
PopLoadTail(q) ==
    /\ ring.th[q].pc = "load_tail"
    /\ \E tail \in plain_read(ring.th[q].h, ring.tail) :
        ring' = IF tail - ring.th[q].h = 0
                THEN [ring EXCEPT !.pop_lock = FALSE,
                                  !.raced = @ \/ tail # ring.tail,
                                  !.th[q] = [@ EXCEPT !.pc = "idle", !.t = tail,
                                                      !.res = "None",
                                                      !.stored = ring.tail - ring.head]]
                ELSE [ring EXCEPT !.raced = @ \/ tail # ring.tail,
                                  !.th[q] = [@ EXCEPT !.pc = "read", !.t = tail]]
    /\ UNCHANGED Others

\* ptr::read of the slot, unless it was read already
PopRead(q) ==
    /\ ring.th[q].pc = "read"
    /\ ring' = [ring EXCEPT !.th[q] = [@ EXCEPT !.pc = "store_head",
                                                !.x = IF ring.th[q].early THEN @
                                                      ELSE ring.data[slot(ring, ring.th[q].h)]]]
    /\ UNCHANGED Others

\* head + 1 is stored, the call returns Some(data) and the lock is released
PopStoreHead(q) ==
    /\ ring.th[q].pc = "store_head"
    /\ ring' = [ring EXCEPT !.head = ring.th[q].h + 1,
                            !.popped = Append(@, ring.th[q].x),
                            !.pop_lock = FALSE,
                            !.th[q] = [@ EXCEPT !.pc = "idle", !.res = "Some",
                                                !.stored = ring.tail - ring.th[q].h]]
    /\ UNCHANGED Others

NextRing ==
    \/ \E p \in Pushers : PushLock(p)
    \/ \E p \in Pushers : PushLoadHead(p)
    \/ \E p \in Pushers : PushWrite(p)
    \/ \E p \in Pushers : PushStoreTail(p)
    \/ \E q \in Poppers : PopLock(q)
    \/ \E q \in Poppers : PopReadEarly(q)
    \/ \E q \in Poppers : PopLoadTail(q)
    \/ \E q \in Poppers : PopRead(q)
    \/ \E q \in Poppers : PopStoreHead(q)

SpecRing == Init /\ [][NextRing]_vars

\* the elements try_pop returned are the first of those pushed, in the
\* order in which they were pushed
Fifo ==
    /\ Len(ring.popped) <= Len(ring.pushed)
    /\ ring.popped = SubSeq(ring.pushed, 1, Len(ring.popped))

\* C40: try_pop returns the pushed elements in FIFO order, none lost or
\* duplicated; try_push returns false only when RingSize elements are
\* stored and try_pop returns None only when none are; tail - head stays
\* within 0 .. RingSize.
C40_RingFifo ==
    /\ Fifo
    /\ \A p \in Pushers : ring.th[p].res = "false" => ring.th[p].stored = RingSize
    /\ \A q \in Poppers : ring.th[q].res = "None" => ring.th[q].stored = 0
    /\ ring.tail - ring.head \in 0 .. RingSize
    /\ ring.tail = Len(ring.pushed) /\ ring.head = Len(ring.popped)

\* the same while every try_pop reads the slot after it read tail
C40_RingFifoInOrder == ~ring.raced => C40_RingFifo

\* two elements went through the ring in order, a try_push having found
\* it full and a try_pop having found it empty
C40_Witness ==
    /\ ~ring.raced
    /\ ring.popped = <<1, 2>>
    /\ \E p \in Pushers : ring.th[p].res = "false" /\ ring.th[p].stored = RingSize
    /\ \E q \in Poppers : ring.th[q].res = "None" /\ ring.th[q].stored = 0

\* three elements went through the two slots in order
C40_WitnessWrap == ~ring.raced /\ ring.popped = <<1, 2, 3>>

\* a try_pop returned None while an element was stored
C40_WitnessNone ==
    \E q \in Poppers : ring.th[q].res = "None" /\ ring.th[q].stored > 0

\* a try_push returned false while a slot was free
C40_WitnessFalse ==
    \E p \in Pushers : ring.th[p].res = "false" /\ ring.th[p].stored < RingSize

\* a try_pop returned what its slot held before the element was written
C40_WitnessStale ==
    /\ ring.raced
    /\ ring.popped # << >> /\ ~Fifo

====
